---- MODULE Spec2Model ----
(***************************************************************************)
(* Attendance reconciliation of BFPAttendance: the attendance table, the   *)
(* pending-approval table and the handlers that write them                 *)
(* (face_recognition/face_service.py, routes/attendance.py,                *)
(* routes/pending.py).                                                     *)
(*                                                                         *)
(* Instants are integers counted in ticks of 1/TicksPerSecond second since *)
(* midnight of day 0, so that the sub-second part of datetime.now() and    *)
(* the truncation int(remaining_seconds) are visible.  The clock and the   *)
(* request inputs are drawn from small sets; the clock is read once per    *)
(* process_attendance call (the two datetime.now() reads of lines 225-226  *)
(* fall in the same tick).                                                 *)
(***************************************************************************)
EXTENDS Integers, FiniteSets, Sequences, TLC

VARIABLES now, attendance, next_attendance_id, pending_attendance,
          next_pending_id, last, pc, loc,
          face_embedding, face_database, recognized, compared,
          face_data, image_path, registered, session,
          files, folders, swept, pending_image, captured,
          resolving

(* now                 the wall clock read by datetime.now()                *)
(* attendance          the rows of the attendance table                     *)
(* next_attendance_id  the next primary key of the attendance table         *)
(* pending_attendance  the rows of the pending_attendance table             *)
(* next_pending_id     the next primary key of the pending_attendance table *)
(* last                the answer of the step just taken, when that step    *)
(*                     was the request under observation; NoResponse after  *)
(*                     any other step                                       *)
(* pc, loc             position and locals of each process_attendance call  *)
(*                     that runs interleaved with others                    *)
(* face_embedding      the embedding of the captured frame, NoEmbedding     *)
(*                     when no face was found in it                         *)
(* face_database       the templates loaded for the capture, per person in  *)
(*                     the iteration order of the dictionary                *)
(* recognized          the pair returned by recognize_face, <<>> before the *)
(*                     call                                                 *)
(* compared            the last call of compare_embeddings on the probe:    *)
(*                     its other arguments and the pair it returned         *)
(* face_data           the rows of the face_data table, in the order the    *)
(*                     storage returns them                                 *)
(* image_path          the image_path column of each personnel row          *)
(* registered          the last call of register_face and what it returned  *)
(* session             the register_face call that has added its rows to    *)
(*                     the database session and not yet committed           *)
(* files               the files below the temporary attendance folder      *)
(* folders             the personnel folders below that folder              *)
(* swept               the folder as the last sweep found it, and its time  *)
(* pending_image       the image file saved for each pending request        *)
(* captured            the user of the last capture request                 *)
(* resolving           per worker, the approval or rejection it runs        *)
store == <<face_data, image_path, registered, session,
           files, folders, swept, pending_image, captured, resolving>>

recognition == <<face_embedding, face_database, recognized, compared, store>>

vars == <<now, attendance, next_attendance_id, pending_attendance,
          next_pending_id, last, pc, loc, recognition>>

----------------------------------------------------------------------------
(* Bounds of the model *)

TicksPerSecond == 2
MaxAttendanceId == 2
MaxPendingId == 1
NumWorkers == 2
MaxEmbeddings == 2
MaxTemplates == 3

----------------------------------------------------------------------------
(* Configuration (app.py) *)

ATTENDANCE_COOLDOWN == 60
WORK_START_HOUR == 8
WORK_START_MINUTE == 0
ATTENDANCE_IMAGE_RETENTION_DAYS == 7

(* the similarity a template must reach, in hundredths *)
FACE_RECOGNITION_THRESHOLD == 75

----------------------------------------------------------------------------
(* Time: datetime, date(), time(), combine() *)

NULL == -1

(* None where an embedding is expected *)
NoEmbedding == <<>>

(* a call of compare_embeddings(face_embedding, db_embedding, threshold)   *)
(* and its result                                                          *)
Comparison(db_embedding, threshold, result) ==
    [db_embedding |-> db_embedding, threshold |-> threshold,
     similarity |-> result[1], is_match |-> result[2]]

NoComparison == Comparison(NoEmbedding, NULL, <<0, FALSE>>)

(* the name of a stored face image: folder, index of the image in the      *)
(* request and the second it was stored                                    *)
Filename(personnel_id, i, stamp) ==
    [personnel_id |-> personnel_id, index |-> i, stamp |-> stamp]

NoFilename == Filename(NULL, NULL, NULL)

(* a call register_face(personnel_id, base64_images) and what it returns;  *)
(* the message counts registered_images                                    *)
Registration(personnel_id, images, success, registered_images, error) ==
    [personnel_id |-> personnel_id, images |-> images, success |-> success,
     registered_images |-> registered_images, error |-> error]

NoRegistration == Registration(NULL, <<>>, FALSE, <<>>, "")

(* a register_face call before its commit: its arguments and the rows it   *)
(* has added to the session                                                *)
Session(personnel_id, images, rows) ==
    [personnel_id |-> personnel_id, images |-> images, rows |-> rows]

NoSession == Session(NULL, <<>>, <<>>)

(* the folder as a sweep found it, and the time of the sweep *)
Swept(fs, dirs, t) == [files |-> fs, folders |-> dirs, at |-> t]
NoSweep == Swept({}, {}, NULL)

(* the logged-in user of a capture request *)
Captured(u) == [user |-> u]
NoCapture == Captured(NULL)

(* an approval or rejection under way: what the worker has read *)
Resolution(kind, status, u, q, existing, t) ==
    [kind |-> kind, status |-> status, user |-> u, request |-> q,
     existing |-> existing, at |-> t]
NoRow == [id |-> NULL]
NoResolution == Resolution("none", "idle", NULL, [id |-> NULL], NoRow, NULL)

DayTicks == 24 * 60 * 60 * TicksPerSecond
SubSecond == TicksPerSecond \div 2

date(t) == t \div DayTicks
time(t) == t % DayTicks
combine(d, tod) == d * DayTicks + tod

HMS(h, m, s) == ((h * 60 + m) * 60 + s) * TicksPerSecond
At(d, h, m, s) == combine(d, HMS(h, m, s))

cooldown_period == ATTENDANCE_COOLDOWN * TicksPerSecond
work_start_time == HMS(WORK_START_HOUR, WORK_START_MINUTE, 0)

(* int(x): truncation toward zero of a duration in ticks to whole seconds *)
int_seconds(ticks) ==
    IF ticks >= 0 THEN ticks \div TicksPerSecond
    ELSE -((-ticks) \div TicksPerSecond)

(* strftime("%I:%M:%S %p"): the time of day in whole seconds, date dropped *)
strftime(t) == IF t = NULL THEN NULL ELSE time(t) \div TicksPerSecond

(* Instants at which the clock is sampled *)
ClockInstants ==
    { At(0, 7, 59, 0), At(0, 7, 59, 30), At(0, 8, 0, 0),
      At(0, 8, 0, 0) + SubSecond, At(0, 8, 0, 1), At(0, 8, 15, 0),
      At(0, 23, 59, 30), At(1, 0, 0, 0), At(1, 0, 0, 31) }

FirstInstant == At(0, 7, 59, 0)

----------------------------------------------------------------------------
(* Personnel registry and users (read-only here) *)

Personnel == {1, 2}
UnknownPersonnel == 3
AdminUser == 1
StationUser == 2
Users == {AdminUser, StationUser}
is_admin(u) == u = AdminUser
station_id(p) == IF p = 1 THEN StationUser ELSE AdminUser

Confidences == {76, 91}
Dates == {0, 1}
AttendanceStatus == {"PRESENT", "LATE", "ABSENT"}

----------------------------------------------------------------------------
(* Attendance rows *)

Attendance(id, p, d, tin, tout, st, conf, auto, appr, by) ==
    [id |-> id, personnel_id |-> p, date |-> d, time_in |-> tin,
     time_out |-> tout, status |-> st, confidence_score |-> conf,
     is_auto_captured |-> auto, is_approved |-> appr, approved_by |-> by]

(* SQL comparison column >= bound: NULL never satisfies it *)
sql_ge(col, bound) == col # NULL /\ col >= bound

(* Attendance.query.filter(personnel_id == p, or_(time_in >= t - cd,       *)
(*                                               time_out >= t - cd))      *)
recent_rows(att, p, t) ==
    { r \in att : /\ r.personnel_id = p
                  /\ \/ sql_ge(r.time_in, t - cooldown_period)
                     \/ sql_ge(r.time_out, t - cooldown_period) }

(* Attendance.query.filter_by(personnel_id=p, date=d) *)
rows_for(att, p, d) == { r \in att : r.personnel_id = p /\ r.date = d }

----------------------------------------------------------------------------
(* Responses returned to the caller.  The shape is uniform: a field that a *)
(* response does not carry is NULL (or "" for the error text).             *)

(* id names the row the answer was built from; it is not sent to the       *)
(* client.  A return value without an "action" key has action "error".     *)
Response(op, p, action, remaining, tin, tout, id, error) ==
    [op |-> op, personnel_id |-> p, action |-> action,
     remaining_time |-> remaining, time_in |-> tin, time_out |-> tout,
     id |-> id, error |-> error]

NoResponse == Response("none", NULL, "none", NULL, NULL, NULL, NULL, "")

(* The locals of a process_attendance call in progress *)
Call(p, confidence, today, current_time, response) ==
    [personnel_id |-> p, confidence |-> confidence, today |-> today,
     current_time |-> current_time, response |-> response]

NoCall == Call(NULL, NULL, NULL, NULL, NoResponse)

(* The tables after a handler has run, and what it answered *)
Result(att, next_att, pend, next_pend, response) ==
    [attendance |-> att, next_attendance_id |-> next_att,
     pending_attendance |-> pend, next_pending_id |-> next_pend,
     response |-> response]

(* A handler that returns without committing anything *)
unchanged(response) ==
    Result(attendance, next_attendance_id, pending_attendance,
           next_pending_id, response)

(* db.session.add(row); db.session.commit() on the attendance table *)
added(row, response) ==
    Result(attendance \cup {row}, next_attendance_id + 1,
           pending_attendance, next_pending_id, response)

(* a variant in which the row of a failed commit is stored all the same *)
failed_commit_partial(row, response) ==
    Result(attendance \cup {row}, next_attendance_id + 1,
           pending_attendance, next_pending_id, response)

(* db.session.add(row); db.session.commit() raises: the row is not stored, *)
(* and the session that holds it is discarded when the request ends        *)
failed_commit(row, response) ==
    Result(attendance, next_attendance_id, pending_attendance,
           next_pending_id, response)

(* commit of a change to one attendance row *)
updated(old, new, response) ==
    Result((attendance \ {old}) \cup {new}, next_attendance_id,
           pending_attendance, next_pending_id, response)

----------------------------------------------------------------------------
(* process_attendance, face_service.py 217-416 *)

(* lines 221-222: {"success": False, "error": "Personnel not found"} *)
not_found_response(p) ==
    Response("process_attendance", p, "error", NULL, NULL, NULL, NULL,
             "Personnel not found")

(* lines 414-416 *)
error_response(p) ==
    Response("process_attendance", p, "error", NULL, NULL, NULL, NULL,
             "Error processing attendance")

(* lines 246-251: the action of the row returned by the first query *)
recent_last_action(r, t) ==
    IF r.time_out # NULL /\ r.time_out >= t - cooldown_period
    THEN r.time_out ELSE r.time_in

(* a variant that reports the seconds elapsed since the last action *)
remaining_time_elapsed(last_action_time, t) ==
    int_seconds(t - last_action_time)

(* lines 253-257 / 293-299 *)
remaining_time(last_action_time, t) ==
    int_seconds(cooldown_period - (t - last_action_time))

(* lines 244-279 *)
recent_response(p, r, t) ==
    Response("process_attendance", p, "cooldown",
             remaining_time(recent_last_action(r, t), t),
             strftime(r.time_in), strftime(r.time_out), r.id, "")

(* lines 289-291 *)
today_last_action(a) == IF a.time_out # NULL THEN a.time_out ELSE a.time_in

(* lines 292-295 *)
today_in_cooldown(a, t) ==
    /\ today_last_action(a) # NULL
    /\ t - today_last_action(a) < cooldown_period

(* a variant whose already_recorded answer carries the current time *)
today_response_now(p, a, t) ==
    IF today_in_cooldown(a, t)
    THEN Response("process_attendance", p, "cooldown",
                  remaining_time(today_last_action(a), t),
                  strftime(a.time_in), strftime(a.time_out), a.id, "")
    ELSE Response("process_attendance", p, "already_recorded", NULL,
                  strftime(t), strftime(a.time_out), a.id, "")

(* lines 287-363 *)
today_response(p, a, t) ==
    IF today_in_cooldown(a, t)
    THEN Response("process_attendance", p, "cooldown",
                  remaining_time(today_last_action(a), t),
                  strftime(a.time_in), strftime(a.time_out), a.id, "")
    ELSE Response("process_attendance", p, "already_recorded", NULL,
                  strftime(a.time_in), strftime(a.time_out), a.id, "")

(* a variant that counts an arrival at work_start_time itself as late *)
status_at_or_after(t) ==
    IF time(t) >= work_start_time THEN "LATE" ELSE "PRESENT"

(* lines 375-380 *)
status_at(t) == IF time(t) > work_start_time THEN "LATE" ELSE "PRESENT"

(* lines 389-397: columns not named keep the column default NULL *)
new_attendance(id, p, today, t, confidence) ==
    Attendance(id, p, today, t, NULL, status_at(t), confidence,
               "NULL", "NULL", NULL)

(* lines 402-412 *)
time_in_response(p, id, t) ==
    Response("process_attendance", p, "time_in", NULL, strftime(t), NULL,
             id, "")

(* a variant that records a time-out on the second recognition of a day *)
process_attendance_checkout(p, confidence, commit_ok) ==
    LET today == date(now)
        current_time == now
        recent == recent_rows(attendance, p, current_time)
        todays == rows_for(attendance, p, today)
    IN  IF p \notin Personnel
        THEN { unchanged(not_found_response(p)) }
        ELSE IF recent # {}
        THEN { unchanged(recent_response(p, r, current_time)) :
                  r \in recent }
        ELSE IF todays # {}
        THEN { IF a.time_out = NULL
               THEN updated(a, [a EXCEPT !.time_out = current_time],
                            Response("process_attendance", p, "time_out",
                                     NULL, strftime(a.time_in),
                                     strftime(current_time), a.id, ""))
               ELSE unchanged(today_response(p, a, current_time))
               : a \in todays }
        ELSE IF commit_ok
        THEN { added(new_attendance(next_attendance_id, p, today,
                                    current_time, confidence),
                     time_in_response(p, next_attendance_id,
                                      current_time)) }
        ELSE { failed_commit(new_attendance(next_attendance_id, p, today,
                                            current_time, confidence),
                             error_response(p)) }

(* The whole handler, run without interleaving: the set of its possible    *)
(* results.  The row returned by .first() of a query without ORDER BY is   *)
(* any row of the query's result.  commit_ok is whether db.session.commit  *)
(* succeeds.                                                               *)
process_attendance(p, confidence, commit_ok) ==
    LET today == date(now)
        current_time == now
        recent == recent_rows(attendance, p, current_time)
        todays == rows_for(attendance, p, today)
    IN  IF p \notin Personnel
        THEN { unchanged(not_found_response(p)) }
        ELSE IF recent # {}
        THEN { unchanged(recent_response(p, r, current_time)) :
                  r \in recent }
        ELSE IF todays # {}
        THEN { unchanged(today_response(p, a, current_time)) :
                  a \in todays }
        ELSE IF commit_ok
        THEN { added(new_attendance(next_attendance_id, p, today,
                                    current_time, confidence),
                     time_in_response(p, next_attendance_id,
                                      current_time)) }
        ELSE { failed_commit(new_attendance(next_attendance_id, p, today,
                                            current_time, confidence),
                             error_response(p)) }

----------------------------------------------------------------------------
(* routes/attendance.py: manual, edit, delete *)

(* a variant that places the form time on the current date *)
form_time_today(d, field, old) ==
    IF field = NULL THEN old ELSE combine(date(now), field)

(* datetime.combine(date, strptime(text, "%H:%M").time()) of a form field; *)
(* an empty field leaves the column as it is                               *)
form_time(d, field, old) == IF field = NULL THEN old ELSE combine(d, field)

can_access(u, p) == is_admin(u) \/ station_id(p) = u

reply(op, p, action, id) ==
    Response(op, p, action, NULL, NULL, NULL, id, "")

(* a variant without the check for an existing record *)
manual_unchecked(u, p, d, time_in, time_out, status) ==
    LET attendance_row ==
            Attendance(next_attendance_id, p, d, form_time(d, time_in, NULL),
                       form_time(d, time_out, NULL), status, NULL,
                       "FALSE", "TRUE", u)
    IN  IF p \notin Personnel
        THEN { unchanged(reply("manual", p, "not_found", NULL)) }
        ELSE IF ~can_access(u, p)
        THEN { unchanged(reply("manual", p, "denied", NULL)) }
        ELSE { added(attendance_row,
                     reply("manual", p, "added", next_attendance_id)) }

manual(u, p, d, time_in, time_out, status) ==
    LET existing == rows_for(attendance, p, d)
        attendance_row ==
            Attendance(next_attendance_id, p, d, form_time(d, time_in, NULL),
                       form_time(d, time_out, NULL), status, NULL,
                       "FALSE", "TRUE", u)
    IN  IF p \notin Personnel
        THEN { unchanged(reply("manual", p, "not_found", NULL)) }
        ELSE IF ~can_access(u, p)
        THEN { unchanged(reply("manual", p, "denied", NULL)) }
        ELSE IF existing # {}
        THEN { unchanged(reply("manual", p, "exists", NULL)) }
        ELSE { added(attendance_row,
                     reply("manual", p, "added", next_attendance_id)) }

edit(u, attendance_id, status, time_in, time_out) ==
    LET found == { r \in attendance : r.id = attendance_id }
    IN  IF found = {}
        THEN { unchanged(reply("edit", NULL, "not_found", attendance_id)) }
        ELSE { IF ~can_access(u, a.personnel_id)
               THEN unchanged(reply("edit", a.personnel_id, "denied", a.id))
               ELSE updated(a,
                            [a EXCEPT
                               !.status = status,
                               !.time_in = form_time(a.date, time_in, @),
                               !.time_out = form_time(a.date, time_out, @)],
                            reply("edit", a.personnel_id, "updated", a.id))
               : a \in found }

delete(u, attendance_id) ==
    LET found == { r \in attendance : r.id = attendance_id }
    IN  IF found = {}
        THEN { unchanged(reply("delete", NULL, "not_found", attendance_id)) }
        ELSE { IF ~can_access(u, a.personnel_id)
               THEN unchanged(reply("delete", a.personnel_id, "denied",
                                    a.id))
               ELSE Result(attendance \ {a}, next_attendance_id,
                           pending_attendance, next_pending_id,
                           reply("delete", a.personnel_id, "deleted", a.id))
               : a \in found }

----------------------------------------------------------------------------
(* routes/pending.py: submit, approve, reject *)

PendingAttendance(id, p, d, attendance_type) ==
    [id |-> id, personnel_id |-> p, date |-> d,
     attendance_type |-> attendance_type]

AttendanceTypes == {"TIME_IN", "TIME_OUT"}

submit(u, p, attendance_type) ==
    IF p \notin Personnel
    THEN { unchanged(reply("submit", p, "error", NULL)) }
    ELSE IF ~can_access(u, p)
    THEN { unchanged(reply("submit", p, "denied", NULL)) }
    ELSE { Result(attendance, next_attendance_id,
                  pending_attendance \cup
                     {PendingAttendance(next_pending_id, p, date(now),
                                        attendance_type)},
                  next_pending_id + 1,
                  reply("submit", p, "submitted", next_pending_id)) }

(* lines 58-88: the request merged into the existing row *)
approve_existing(existing_attendance, pending_request, u, t) ==
    [existing_attendance EXCEPT
        !.time_in = IF pending_request.attendance_type = "TIME_IN"
                    THEN t ELSE @,
        !.time_out = IF pending_request.attendance_type = "TIME_IN"
                     THEN @ ELSE t,
        !.is_approved = "TRUE",
        !.approved_by = u]

(* a variant that lets an approval overwrite a field *)
already_set_never(existing_attendance, pending_request) == FALSE

(* lines 60-61 / 73-74: the field the request would set is already set *)
already_set(existing_attendance, pending_request) ==
    IF pending_request.attendance_type = "TIME_IN"
    THEN existing_attendance.time_in # NULL
    ELSE existing_attendance.time_out # NULL

(* lines 90-105 *)
approve_new(id, pending_request, u, t) ==
    Attendance(id, pending_request.personnel_id, pending_request.date,
               IF pending_request.attendance_type = "TIME_IN"
               THEN t ELSE NULL,
               IF pending_request.attendance_type = "TIME_IN"
               THEN NULL ELSE t,
               "PRESENT", NULL, "FALSE", "TRUE", u)

(* the results of approving request q, lines 53-121 *)
approve_request(u, q) ==
    LET existing == rows_for(attendance, q.personnel_id, q.date)
    IN  IF existing # {}
        THEN { IF already_set(e, q)
               THEN unchanged(reply("approve", q.personnel_id, "already",
                                    q.id))
               ELSE Result((attendance \ {e}) \cup
                              {approve_existing(e, q, u, now)},
                           next_attendance_id,
                           pending_attendance \ {q}, next_pending_id,
                           reply("approve", q.personnel_id, "approved",
                                 q.id))
               : e \in existing }
        ELSE { Result(attendance \cup
                         {approve_new(next_attendance_id, q, u, now)},
                      next_attendance_id + 1,
                      pending_attendance \ {q}, next_pending_id,
                      reply("approve", q.personnel_id, "approved", q.id)) }

approve(u, request_id) ==
    LET found == { q \in pending_attendance : q.id = request_id }
    IN  IF ~is_admin(u)
        THEN { unchanged(reply("approve", NULL, "denied", request_id)) }
        ELSE IF found = {}
        THEN { unchanged(reply("approve", NULL, "error", request_id)) }
        ELSE UNION { approve_request(u, q) : q \in found }

(* a variant that answers without deleting the request *)
reject_kept(u, request_id) ==
    LET found == { q \in pending_attendance : q.id = request_id }
    IN  IF ~is_admin(u)
        THEN { unchanged(reply("reject", NULL, "denied", request_id)) }
        ELSE IF found = {}
        THEN { unchanged(reply("reject", NULL, "error", request_id)) }
        ELSE { unchanged(reply("reject", q.personnel_id, "rejected", q.id))
               : q \in found }

reject(u, request_id) ==
    LET found == { q \in pending_attendance : q.id = request_id }
    IN  IF ~is_admin(u)
        THEN { unchanged(reply("reject", NULL, "denied", request_id)) }
        ELSE IF found = {}
        THEN { unchanged(reply("reject", NULL, "error", request_id)) }
        ELSE { Result(attendance, next_attendance_id,
                      pending_attendance \ {q}, next_pending_id,
                      reply("reject", q.personnel_id, "rejected", q.id))
               : q \in found }

----------------------------------------------------------------------------
(* Running a handler to completion: one of its results becomes the state.  *)
(* The ids that the tables hand out are capped.                            *)

(* the most requests ever submitted *)
MaxRequests == MaxPendingId + 1

commit(res) ==
    /\ res.next_attendance_id <= MaxAttendanceId + 1
    /\ res.next_pending_id <= MaxRequests + 1
    /\ attendance' = res.attendance
    /\ next_attendance_id' = res.next_attendance_id
    /\ pending_attendance' = res.pending_attendance
    /\ next_pending_id' = res.next_pending_id
    /\ UNCHANGED <<now, pc, loc, recognition>>

(* the request whose answer is observed *)
Observed(results) == \E res \in results : commit(res) /\ last' = res.response

(* a request of the surrounding traffic *)
Background(results) == \E res \in results : commit(res) /\ last' = NoResponse

(* The clock advances to a later sampled instant *)
Tick(instants) ==
    /\ \E t \in instants : t > now /\ now' = t
    /\ last' = NoResponse
    /\ UNCHANGED <<attendance, next_attendance_id, pending_attendance,
                   next_pending_id, pc, loc, recognition>>

----------------------------------------------------------------------------
(* Inputs *)

Workers == 1 .. NumWorkers
RequestIds == 1 .. MaxRequests
AttendanceIds == 1 .. MaxAttendanceId
PendingIds == 1 .. MaxPendingId
CaptureInputs == Personnel \cup {UnknownPersonnel}

Init ==
    /\ now = FirstInstant
    /\ attendance = {}
    /\ next_attendance_id = 1
    /\ pending_attendance = {}
    /\ next_pending_id = 1
    /\ last = NoResponse
    /\ pc = [w \in Workers |-> "idle"]
    /\ loc = [w \in Workers |-> NoCall]
    /\ face_embedding = NoEmbedding
    /\ face_database = <<>>
    /\ recognized = <<>>
    /\ compared = NoComparison
    /\ face_data = <<>>
    /\ image_path = [p \in Personnel |-> NoFilename]
    /\ registered = NoRegistration
    /\ session = NoSession
    /\ files = {}
    /\ folders = {}
    /\ swept = NoSweep
    /\ pending_image = <<>>
    /\ captured = NoCapture
    /\ resolving = [w \in Workers |-> NoResolution]

----------------------------------------------------------------------------
(* Spec: all handlers, each run to completion before the next starts *)

CoarseInstants == { At(0, 7, 59, 0), At(1, 0, 0, 0) }
ManualForms == { <<NULL, NULL>> }
EditForms == { <<NULL, HMS(8, 0, 0)>> }

(* the kind of request submitted for each person *)
RequestType(p) == IF p = 1 THEN "TIME_IN" ELSE "TIME_OUT"

ClockTick == Tick(CoarseInstants)

Capture ==
    \E p \in CaptureInputs, ok \in BOOLEAN :
          Background(process_attendance(p, 91, ok))

ManualEntry ==
    \E p \in Personnel, d \in Dates, f \in ManualForms :
          Background(manual(station_id(p), p, d, f[1], f[2], "ABSENT"))

EditEntry ==
    \E id \in AttendanceIds, f \in EditForms :
          Background(edit(AdminUser, id, "ABSENT", f[1], f[2]))

DeleteEntry ==
    \E u \in Users, id \in AttendanceIds : Background(delete(u, id))

SubmitPending ==
    /\ next_pending_id <= MaxPendingId
    /\ \E p \in Personnel :
          Background(submit(station_id(p), p, RequestType(p)))

ApprovePending ==
    \E u \in Users, id \in PendingIds : Background(approve(u, id))

RejectPending ==
    \E u \in Users, id \in PendingIds : Background(reject(u, id))

Next ==
    \/ ClockTick
    \/ Capture
    \/ ManualEntry
    \/ EditEntry
    \/ DeleteEntry
    \/ SubmitPending
    \/ ApprovePending
    \/ RejectPending

Spec == Init /\ [][Next]_vars

----------------------------------------------------------------------------
(* SpecCapture: recognition events, observed, against a table seeded by    *)
(* manual entries, with the clock sampled around the cooldown, the work    *)
(* start and midnight                                                      *)

SeedForms == { <<NULL, NULL>>, <<HMS(0, 0, 0), HMS(0, 0, 0)>>,
               <<HMS(23, 59, 0), NULL>>, <<NULL, HMS(23, 59, 0)>> }

FineTick == Tick(ClockInstants)

RecognitionOf(p, c, ok) == Observed(process_attendance(p, c, ok))

Recognition ==
    \E p \in CaptureInputs, c \in Confidences, ok \in BOOLEAN :
          RecognitionOf(p, c, ok)

ManualSeed ==
    \E d \in Dates, f \in SeedForms :
          Background(manual(AdminUser, 1, d, f[1], f[2], "PRESENT"))

NextCapture ==
    \/ FineTick
    \/ Recognition
    \/ ManualSeed

SpecCapture == Init /\ [][NextCapture]_vars

----------------------------------------------------------------------------
(* SpecConc: process_attendance called by concurrent workers.  A worker    *)
(* runs the handler's three database accesses as separate steps; each      *)
(* query sees the rows committed so far.                                   *)

(* lines 219-230: look the person up, read the clock *)
pa_begin(w, p, confidence) ==
    /\ pc[w] = "idle"
    /\ IF p \notin Personnel
       THEN /\ loc' = [loc EXCEPT ![w] = Call(p, confidence, date(now), now,
                                              not_found_response(p))]
            /\ pc' = [pc EXCEPT ![w] = "done"]
       ELSE /\ loc' = [loc EXCEPT ![w] = Call(p, confidence, date(now), now,
                                              NoResponse)]
            /\ pc' = [pc EXCEPT ![w] = "recent"]
    /\ UNCHANGED <<now, attendance, next_attendance_id, pending_attendance,
                   next_pending_id, last, recognition>>

(* lines 232-279: the cooldown query *)
pa_recent(w) ==
    /\ pc[w] = "recent"
    /\ LET c == loc[w]
           recent == recent_rows(attendance, c.personnel_id, c.current_time)
       IN  IF recent # {}
           THEN /\ \E r \in recent :
                     loc' = [loc EXCEPT ![w].response =
                               recent_response(c.personnel_id, r,
                                               c.current_time)]
                /\ pc' = [pc EXCEPT ![w] = "done"]
           ELSE /\ pc' = [pc EXCEPT ![w] = "today"]
                /\ UNCHANGED loc
    /\ UNCHANGED <<now, attendance, next_attendance_id, pending_attendance,
                   next_pending_id, last, recognition>>

(* lines 281-363: the query for today's row *)
pa_today(w) ==
    /\ pc[w] = "today"
    /\ LET c == loc[w]
           todays == rows_for(attendance, c.personnel_id, c.today)
       IN  IF todays # {}
           THEN /\ \E a \in todays :
                     loc' = [loc EXCEPT ![w].response =
                               today_response(c.personnel_id, a,
                                              c.current_time)]
                /\ pc' = [pc EXCEPT ![w] = "done"]
           ELSE /\ pc' = [pc EXCEPT ![w] = "insert"]
                /\ UNCHANGED loc
    /\ UNCHANGED <<now, attendance, next_attendance_id, pending_attendance,
                   next_pending_id, last, recognition>>

(* lines 364-416: db.session.add(new_attendance); db.session.commit().     *)
(* The table has no constraint that could reject the row (models.py        *)
(* 93-108), so the commit fails only when the storage does.                *)
pa_insert(w, commit_ok) ==
    /\ pc[w] = "insert"
    /\ LET c == loc[w]
       IN  IF commit_ok
           THEN /\ next_attendance_id <= MaxAttendanceId
                /\ attendance' = attendance \cup
                      {new_attendance(next_attendance_id, c.personnel_id,
                                      c.today, c.current_time,
                                      c.confidence)}
                /\ next_attendance_id' = next_attendance_id + 1
                /\ loc' = [loc EXCEPT ![w].response =
                             time_in_response(c.personnel_id,
                                              next_attendance_id,
                                              c.current_time)]
           ELSE /\ loc' = [loc EXCEPT ![w].response =
                             error_response(c.personnel_id)]
                /\ UNCHANGED <<attendance, next_attendance_id>>
    /\ pc' = [pc EXCEPT ![w] = "done"]
    /\ UNCHANGED <<now, pending_attendance, next_pending_id, last,
                   recognition>>

ConcInstants == { At(0, 7, 59, 0), At(0, 7, 59, 30), At(0, 8, 0, 1) }

ConcTick == Tick(ConcInstants)

Begin == \E w \in Workers, p \in CaptureInputs : pa_begin(w, p, 91)
ReadRecent == \E w \in Workers : pa_recent(w)
ReadToday == \E w \in Workers : pa_today(w)
Insert == \E w \in Workers, ok \in BOOLEAN : pa_insert(w, ok)

NextConc ==
    \/ ConcTick
    \/ Begin
    \/ ReadRecent
    \/ ReadToday
    \/ Insert

SpecConc == Init /\ [][NextConc]_vars

----------------------------------------------------------------------------
(* The three paths that write a record, each observed: recognition, manual *)
(* entry by the station user and approval of a pending request, with the   *)
(* submissions for person 1 as surrounding traffic.                        *)

EntryInstants == { At(0, 7, 59, 0), At(0, 8, 15, 0) }
EntryForms == { <<NULL, NULL>>, <<HMS(8, 0, 0), HMS(7, 0, 0)>> }

EntryTick == Tick(EntryInstants)

EntryRecognition == Observed(process_attendance(1, 91, TRUE))

ManualOf(u, p, d, f, st) == Observed(manual(u, p, d, f[1], f[2], st))

EntryManual ==
    \E p \in Personnel, d \in Dates, f \in EntryForms :
          ManualOf(StationUser, p, d, f, "LATE")

EntrySubmit ==
    \E ty \in AttendanceTypes : Background(submit(AdminUser, 1, ty))

ApproveOf(u, id) == Observed(approve(u, id))

EntryApprove == \E u \in Users, id \in RequestIds : ApproveOf(u, id)

RejectOf(u, id) == Observed(reject(u, id))

EntryReject == \E u \in Users, id \in RequestIds : RejectOf(u, id)

NextEntry ==
    \/ EntryTick
    \/ EntryRecognition
    \/ EntryManual
    \/ EntrySubmit
    \/ EntryApprove
    \/ EntryReject

SpecEntry == Init /\ [][NextEntry]_vars

----------------------------------------------------------------------------
(* Floating point.  A float is a whole number of units of 2^-FractionBits *)
(* that has at most MantissaBits significant bits: the binary64 format of *)
(* Python and numpy with a narrower significand.  Every operation returns *)
(* the float nearest to its exact result, ties to the even significand.   *)

MantissaBits == 7
FractionBits == 8
Unit == 2 ^ FractionBits

RECURSIVE bit_length(_)
bit_length(n) == IF n = 0 THEN 0 ELSE 1 + bit_length(n \div 2)

(* the distance between the floats around q units *)
spacing(q) ==
    IF bit_length(q) > MantissaBits
    THEN 2 ^ (bit_length(q) - MantissaBits)
    ELSE 1

(* the floats below and above a result; twice_rest / twice_half tell on    *)
(* which side of their midpoint the result lies                           *)
nearest(below, step, twice_rest, twice_half) ==
    IF twice_rest < twice_half THEN below
    ELSE IF twice_rest > twice_half THEN below + step
    ELSE IF (below \div step) % 2 = 0 THEN below
    ELSE below + step

(* the float nearest to n / d units, for n >= 0 and d > 0 *)
float_quotient(n, d) ==
    LET step == spacing(n \div d)
        below == ((n \div d) \div step) * step
    IN  nearest(below, step, 2 * (n - below * d), step * d)

(* the whole part of the square root of n *)
RECURSIVE whole_sqrt(_)
whole_sqrt(n) ==
    IF n < 2
    THEN n
    ELSE LET r == 2 * whole_sqrt(n \div 4)
         IN  IF (r + 1) * (r + 1) <= n THEN r + 1 ELSE r

(* math.sqrt: the float nearest to the square root of the whole number x *)
float_sqrt(x) ==
    LET radicand == x * Unit * Unit
        root == whole_sqrt(radicand)
        step == spacing(root)
        below == (root \div step) * step
    IN  nearest(below, step, 4 * radicand,
                (2 * below + step) * (2 * below + step))

(* a * b and a / b for floats a, b >= 0 *)
float_product(a, b) == float_quotient(a * b, Unit)
float_division(a, b) == float_quotient(a * Unit, b)

(* the float written as a decimal literal with two places, 0.75 as 75 *)
float_literal(hundredths) == float_quotient(hundredths * Unit, 100)

----------------------------------------------------------------------------
(* The recognizer (face_service.py 106-214).  An embedding is a vector of  *)
(* small whole numbers, so that its dot products are exact.                *)

RECURSIVE dot_product(_, _)
dot_product(emb1, emb2) ==
    IF emb1 = <<>>
    THEN 0
    ELSE Head(emb1) * Head(emb2) + dot_product(Tail(emb1), Tail(emb2))

(* np.linalg.norm: sqrt(x.dot(x)) *)
norm(emb) == float_sqrt(dot_product(emb, emb))

(* compare_embeddings: the pair (similarity, is_match), both floats *)
compare_embeddings(emb1, emb2, threshold) ==
    IF Len(emb1) # Len(emb2)
    THEN <<0, FALSE>>
    ELSE LET norm1 == norm(emb1)
             norm2 == norm(emb2)
             dot == dot_product(emb1, emb2)
         IN  IF norm1 = 0 \/ norm2 = 0
             THEN <<0, FALSE>>
             ELSE LET magnitude ==
                          float_division((IF dot < 0 THEN -dot ELSE dot)
                                             * Unit,
                                         float_product(norm1, norm2))
                      similarity == IF dot < 0 THEN -magnitude
                                    ELSE magnitude
                  IN  <<similarity, similarity >= threshold>>

(* line 206 with ">=" instead of ">" *)
replaces_best_or_equal(match, similarity, max_similarity) ==
    match /\ similarity >= max_similarity

(* line 206: whether the template replaces the best one so far *)
replaces_best(match, similarity, max_similarity) ==
    match /\ similarity > max_similarity

(* lines 198-208: the templates of one person; best is the pair            *)
(* (recognized_id, max_similarity) so far                                  *)
RECURSIVE scan_embeddings(_, _, _, _, _)
scan_embeddings(probe, personnel_id, embeddings, threshold, best) ==
    IF embeddings = <<>>
    THEN best
    ELSE LET db_embedding == Head(embeddings)
             scored == compare_embeddings(probe, db_embedding, threshold)
             kept == IF /\ db_embedding # NoEmbedding
                        /\ replaces_best(scored[2], scored[1], best[2])
                     THEN <<personnel_id, scored[1]>>
                     ELSE best
         IN  scan_embeddings(probe, personnel_id, Tail(embeddings),
                             threshold, kept)

(* lines 193-208: the persons of the database in iteration order; an       *)
(* entry without embeddings is skipped                                     *)
RECURSIVE scan_database(_, _, _, _)
scan_database(probe, database, threshold, best) ==
    IF database = <<>>
    THEN best
    ELSE scan_database(probe, Tail(database), threshold,
                       scan_embeddings(probe, Head(database).personnel_id,
                                       Head(database).embeddings,
                                       threshold, best))

(* recognize_face: the pair (recognized_id, max_similarity).  A threshold  *)
(* of None is read from the configuration; both capture routes pass none.  *)
recognize_face(probe, database, threshold) ==
    IF probe = NoEmbedding \/ database = <<>>
    THEN <<NULL, 0>>
    ELSE scan_database(probe, database,
                       IF threshold = NULL
                       THEN float_literal(FACE_RECOGNITION_THRESHOLD)
                       ELSE threshold,
                       <<NULL, 0>>)

----------------------------------------------------------------------------
(* SpecRecognize: recognize_face applied to a probe and a loaded database *)

(* the captured embeddings *)
Probes == { NoEmbedding, <<1, 0>> }

(* the stored templates: similarities 1, 0.8 and 0.6 to the probe         *)
(* <<1, 0>>, and another dimension                                         *)
Templates == { <<5, 0>>, <<4, 3>>, <<3, 4>>, <<1>> }

(* the lists of templates of one person *)
TemplateLists ==
    UNION { [1 .. n -> Templates] : n \in 0 .. MaxEmbeddings }

(* the databases: each person at most once, in either order *)
Databases ==
    { <<>> }
    \cup { <<[personnel_id |-> p, embeddings |-> e]>> :
             p \in Personnel, e \in TemplateLists }
    \cup { <<[personnel_id |-> pq[1], embeddings |-> e],
             [personnel_id |-> pq[2], embeddings |-> f]>> :
             pq \in { x \in Personnel \X Personnel : x[1] # x[2] },
             e \in TemplateLists, f \in TemplateLists }

InitRecognize ==
    /\ now = FirstInstant
    /\ attendance = {}
    /\ next_attendance_id = 1
    /\ pending_attendance = {}
    /\ next_pending_id = 1
    /\ last = NoResponse
    /\ pc = [w \in Workers |-> "idle"]
    /\ loc = [w \in Workers |-> NoCall]
    /\ face_embedding \in Probes
    /\ face_database \in Databases
    /\ recognized = <<>>
    /\ compared = NoComparison
    /\ face_data = <<>>
    /\ image_path = [p \in Personnel |-> NoFilename]
    /\ registered = NoRegistration
    /\ session = NoSession
    /\ files = {}
    /\ folders = {}
    /\ swept = NoSweep
    /\ pending_image = <<>>
    /\ captured = NoCapture
    /\ resolving = [w \in Workers |-> NoResolution]

(* api.py 78, attendance.py 121 *)
Recognize ==
    /\ recognized' = recognize_face(face_embedding, face_database, NULL)
    /\ UNCHANGED <<now, attendance, next_attendance_id, pending_attendance,
                   next_pending_id, last, pc, loc, face_embedding,
                   face_database, compared, store>>

NextRecognize == Recognize

SpecRecognize == InitRecognize /\ [][NextRecognize]_vars

----------------------------------------------------------------------------
(* SpecCompare: compare_embeddings applied to the probe and a template at  *)
(* any threshold, and recognize_face applied to the same two               *)

(* the vectors compared: parallel, opposite, orthogonal and oblique ones,  *)
(* the zero vector and one of another dimension                            *)
Vectors == { <<1, 0>>, <<-1, 0>>, <<1, 1>>, <<4, 3>>, <<0, 0>>, <<1>> }

(* the thresholds 0, 0.75 and 1 *)
Thresholds == { float_literal(0), float_literal(75), float_literal(100) }

InitCompare ==
    /\ now = FirstInstant
    /\ attendance = {}
    /\ next_attendance_id = 1
    /\ pending_attendance = {}
    /\ next_pending_id = 1
    /\ last = NoResponse
    /\ pc = [w \in Workers |-> "idle"]
    /\ loc = [w \in Workers |-> NoCall]
    /\ face_embedding \in Vectors
    /\ face_database \in { <<[personnel_id |-> p, embeddings |-> <<e>>]>> :
                               p \in Personnel, e \in Vectors }
    /\ recognized = <<>>
    /\ compared = NoComparison
    /\ face_data = <<>>
    /\ image_path = [p \in Personnel |-> NoFilename]
    /\ registered = NoRegistration
    /\ session = NoSession
    /\ files = {}
    /\ folders = {}
    /\ swept = NoSweep
    /\ pending_image = <<>>
    /\ captured = NoCapture
    /\ resolving = [w \in Workers |-> NoResolution]

(* face_service.py 202-204, at a threshold of the caller *)
Compare ==
    /\ \E threshold \in Thresholds :
          LET db_embedding == face_database[1].embeddings[1]
          IN  compared' =
                  Comparison(db_embedding, threshold,
                             compare_embeddings(face_embedding, db_embedding,
                                                threshold))
    /\ UNCHANGED <<now, attendance, next_attendance_id, pending_attendance,
                   next_pending_id, last, pc, loc, face_embedding,
                   face_database, recognized, store>>

NextCompare == Compare \/ Recognize

SpecCompare == InitCompare /\ [][NextCompare]_vars

----------------------------------------------------------------------------
(* The template store: the face_data table and load_face_database          *)
(* (face_service.py 140-177)                                               *)

(* The text of the embedding column: json.dumps of a list, text that is   *)
(* no JSON (generate_fake_data.py 197 writes "[fake_embedding_data]"), or  *)
(* NULL                                                                    *)
json_dumps(value) == [kind |-> "json", value |-> value]
InvalidText == [kind |-> "invalid", value |-> <<>>]
NullText == [kind |-> "null", value |-> <<>>]

(* json.loads: the value, or the exception it raises *)
json_loads(text) ==
    [raised |-> text.kind # "json", value |-> text.value]

(* a row of face_data *)
FaceData(personnel_id, filename, embedding) ==
    [personnel_id |-> personnel_id, filename |-> filename,
     embedding |-> embedding]

(* lines 145-151: FaceData.query, joined and filtered when a station is    *)
(* given                                                                   *)
RECURSIVE face_data_entries(_, _)
face_data_entries(rows, station) ==
    IF rows = <<>>
    THEN <<>>
    ELSE IF station = NULL \/ station_id(Head(rows).personnel_id) = station
         THEN <<Head(rows)>> \o face_data_entries(Tail(rows), station)
         ELSE face_data_entries(Tail(rows), station)

(* the position of the person in the dictionary, 0 when absent *)
key_index(database, personnel_id) ==
    IF \E i \in DOMAIN database : database[i].personnel_id = personnel_id
    THEN CHOOSE i \in DOMAIN database :
             database[i].personnel_id = personnel_id
    ELSE 0

(* lines 160-168: face_database[personnel_id]["embeddings"].append *)
append_embedding(database, personnel_id, embedding) ==
    LET i == key_index(database, personnel_id)
    IN  IF i = 0
        THEN Append(database, [personnel_id |-> personnel_id,
                               embeddings |-> <<embedding>>])
        ELSE [database EXCEPT ![i].embeddings = Append(@, embedding)]

(* line 156 without the guard of the inner try: a row that does not parse  *)
(* ends the load with what the outer handler returns                       *)
RECURSIVE load_entries_aborting(_, _)
load_entries_aborting(entries, database) ==
    IF entries = <<>>
    THEN database
    ELSE LET entry == Head(entries)
             parsed == json_loads(entry.embedding)
         IN  IF entry.embedding.kind = "null"
             THEN load_entries_aborting(Tail(entries), database)
             ELSE IF parsed.raised
             THEN <<>>
             ELSE IF parsed.value = <<>>
             THEN load_entries_aborting(Tail(entries), database)
             ELSE load_entries_aborting(
                      Tail(entries),
                      append_embedding(database, entry.personnel_id,
                                       parsed.value))

(* lines 153-171: the loop over the rows; a row whose text is empty, does  *)
(* not parse or parses to an empty list adds nothing                       *)
RECURSIVE load_entries(_, _)
load_entries(entries, database) ==
    IF entries = <<>>
    THEN database
    ELSE LET entry == Head(entries)
             parsed == json_loads(entry.embedding)
         IN  IF entry.embedding.kind = "null"
             THEN load_entries(Tail(entries), database)
             ELSE IF parsed.raised
             THEN load_entries(Tail(entries), database)
             ELSE IF parsed.value = <<>>
             THEN load_entries(Tail(entries), database)
             ELSE load_entries(Tail(entries),
                               append_embedding(database,
                                                entry.personnel_id,
                                                parsed.value))

(* load_face_database(station_id), station_id None as NULL *)
load_face_database(rows, station) ==
    load_entries(face_data_entries(rows, station), <<>>)

----------------------------------------------------------------------------
(* SpecStore: load_face_database applied to a stored table *)

(* the texts found in the embedding column *)
StoredTexts ==
    { json_dumps(<<1, 0>>), json_dumps(<<4, 3>>), json_dumps(<<>>),
      InvalidText, NullText }

StoredRows ==
    { FaceData(p, NoFilename, text) : p \in Personnel, text \in StoredTexts }

(* the tables of up to MaxTemplates rows *)
StoredTables == UNION { [1 .. n -> StoredRows] : n \in 0 .. MaxTemplates }

(* the stations a load is scoped to, NULL for none *)
Scopes == { NULL, AdminUser, StationUser }

InitStore ==
    /\ now = FirstInstant
    /\ attendance = {}
    /\ next_attendance_id = 1
    /\ pending_attendance = {}
    /\ next_pending_id = 1
    /\ last = NoResponse
    /\ pc = [w \in Workers |-> "idle"]
    /\ loc = [w \in Workers |-> NoCall]
    /\ face_embedding = NoEmbedding
    /\ face_database = <<>>
    /\ recognized = <<>>
    /\ compared = NoComparison
    /\ face_data \in StoredTables
    /\ image_path = [p \in Personnel |-> NoFilename]
    /\ registered = NoRegistration
    /\ session = NoSession
    /\ files = {}
    /\ folders = {}
    /\ swept = NoSweep
    /\ pending_image = <<>>
    /\ captured = NoCapture
    /\ resolving = [w \in Workers |-> NoResolution]

(* api.py 63-64, attendance.py 106-107 *)
LoadOf(station) ==
    /\ face_database' = load_face_database(face_data, station)
    /\ UNCHANGED <<now, attendance, next_attendance_id, pending_attendance,
                   next_pending_id, last, pc, loc, face_embedding,
                   recognized, compared, store>>

Load == \E station \in Scopes : LoadOf(station)

NextStore == Load

SpecStore == InitStore /\ [][NextStore]_vars

----------------------------------------------------------------------------
(* Enrollment: register_face (face_service.py 517-623) *)

(* strftime("%Y%m%d_%H%M%S") *)
filename_stamp(t) == t \div TicksPerSecond

(* lines 535-585 with the photo list never filled: the rows of the images  *)
(* are added and none is remembered as registered                          *)
RECURSIVE register_images_unlisted(_, _, _, _, _)
register_images_unlisted(personnel_id, images, i, t, acc) ==
    IF i >= Len(images)
    THEN acc
    ELSE LET embedding == images[i + 1]
             filename == Filename(personnel_id, i, filename_stamp(t))
         IN  IF embedding = NoEmbedding
             THEN register_images_unlisted(personnel_id, images, i + 1, t,
                                           acc)
             ELSE register_images_unlisted(
                      personnel_id, images, i + 1, t,
                      [acc EXCEPT
                         !.rows = Append(@, FaceData(personnel_id, filename,
                                                     json_dumps(embedding)))])

(* lines 535-585: the loop over the images, image i being base64_images[i] *)
(* (counted from 0); acc holds the rows added to the session and           *)
(* registered_images.  An image is given by the embedding                  *)
(* process_base64_image finds in it, NoEmbedding when it finds no face.    *)
RECURSIVE register_images(_, _, _, _, _)
register_images(personnel_id, images, i, t, acc) ==
    IF i >= Len(images)
    THEN acc
    ELSE LET embedding == images[i + 1]
             filename == Filename(personnel_id, i, filename_stamp(t))
         IN  IF embedding = NoEmbedding
             THEN register_images(personnel_id, images, i + 1, t, acc)
             ELSE register_images(
                      personnel_id, images, i + 1, t,
                      [rows |-> Append(acc.rows,
                                       FaceData(personnel_id, filename,
                                                json_dumps(embedding))),
                       registered_images |-> Append(acc.registered_images,
                                                    filename)])

(* register_face: the table, the image paths and the result after the      *)
(* call.  commit_ok is whether db.session.commit() succeeds; when it does  *)
(* not, the session is rolled back.                                        *)
register_face(rows, paths, personnel_id, images, t, commit_ok) ==
    IF personnel_id \notin Personnel
    THEN [face_data |-> rows, image_path |-> paths,
          registered |-> Registration(personnel_id, images, FALSE, <<>>,
                                      "Personnel not found")]
    ELSE LET pending == register_images(personnel_id, images, 0, t,
                                      [rows |-> <<>>,
                                       registered_images |-> <<>>])
         IN  IF ~commit_ok
             THEN [face_data |-> rows, image_path |-> paths,
                   registered |-> Registration(personnel_id, images, FALSE,
                                               <<>>,
                                               "Error registering faces")]
             ELSE [face_data |-> rows \o pending.rows,
                   image_path |->
                       IF Len(pending.registered_images) > 0
                       THEN [paths EXCEPT ![personnel_id] =
                                 pending.registered_images[1]]
                       ELSE paths,
                   registered |-> Registration(personnel_id, images, TRUE,
                                               pending.registered_images,
                                               "")]

----------------------------------------------------------------------------
(* SpecEnroll: requests to register faces *)

(* the images of one request, each given by what process_base64_image     *)
(* finds in it: one with and one without a face, a pair                    *)
(* whose first shows none, and three of which the second shows none       *)
RasterLists ==
    { <<<<4, 3>>>>, <<NoEmbedding>>, <<NoEmbedding, <<4, 3>>>>,
      <<<<4, 3>>, NoEmbedding, <<4, 3>>>> }

(* personnel.py 184-199 *)
EnrollOf(personnel_id, images, commit_ok) ==
    LET res == register_face(face_data, image_path, personnel_id, images,
                             now, commit_ok)
    IN  /\ Len(res.face_data) <= MaxTemplates
        /\ face_data' = res.face_data
        /\ image_path' = res.image_path
        /\ registered' = res.registered
        /\ last' = NoResponse
        /\ UNCHANGED <<now, attendance, next_attendance_id,
                       pending_attendance, next_pending_id, pc, loc,
                       face_embedding, face_database, recognized, compared,
                       session, files, folders, swept, pending_image, captured,
                   resolving>>

Enroll ==
    \E p \in Personnel, images \in RasterLists, commit_ok \in BOOLEAN :
        EnrollOf(p, images, commit_ok)

NextEnroll == Enroll

SpecEnroll == Init /\ [][NextEnroll]_vars

----------------------------------------------------------------------------
(* SpecSnapshot: captures (load, then recognize) interleaved with a        *)
(* register_face call that adds its rows and later commits                 *)

(* FaceData.query with rows of another session that are not committed:     *)
(* they are read as well                                                   *)
committed_rows_and_pending(rows, pending) == rows \o pending

(* FaceData.query reads the committed rows; the rows another request has   *)
(* added to its session are not among them before that request commits     *)
committed_rows(rows, pending) == rows

(* the probe of the captures *)
SnapshotProbes == { <<1, 0>> }

(* the images of the register_face calls *)
SnapshotImages == { <<<<4, 3>>>>, <<<<4, 3>>, <<4, 3>>>> }

InitSnapshot ==
    /\ now = FirstInstant
    /\ attendance = {}
    /\ next_attendance_id = 1
    /\ pending_attendance = {}
    /\ next_pending_id = 1
    /\ last = NoResponse
    /\ pc = [w \in Workers |-> "idle"]
    /\ loc = [w \in Workers |-> NoCall]
    /\ face_embedding \in SnapshotProbes
    /\ face_database = <<>>
    /\ recognized = <<>>
    /\ compared = NoComparison
    /\ face_data = <<>>
    /\ image_path = [p \in Personnel |-> NoFilename]
    /\ registered = NoRegistration
    /\ session = NoSession
    /\ files = {}
    /\ folders = {}
    /\ swept = NoSweep
    /\ pending_image = <<>>
    /\ captured = NoCapture
    /\ resolving = [w \in Workers |-> NoResolution]

(* face_service.py 517-585: the rows are added to the session *)
rf_add(personnel_id, images) ==
    /\ session = NoSession
    /\ LET rows == register_images(personnel_id, images, 0, now,
                                   [rows |-> <<>>,
                                    registered_images |-> <<>>]).rows
       IN  /\ Len(face_data) + Len(rows) <= MaxTemplates
           /\ session' = Session(personnel_id, images, rows)
    /\ UNCHANGED <<now, attendance, next_attendance_id, pending_attendance,
                   next_pending_id, last, pc, loc, face_embedding,
                   face_database, recognized, compared, face_data,
                   image_path, registered, files, folders, swept,
                   pending_image, captured,
                   resolving>>

(* face_service.py 587-623: the image path is set and the session is       *)
(* committed, or rolled back when the commit fails                         *)
rf_commit(commit_ok) ==
    /\ session # NoSession
    /\ LET res == register_face(face_data, image_path, session.personnel_id,
                                session.images, now, commit_ok)
       IN  /\ face_data' = res.face_data
           /\ image_path' = res.image_path
           /\ registered' = res.registered
    /\ session' = NoSession
    /\ UNCHANGED <<now, attendance, next_attendance_id, pending_attendance,
                   next_pending_id, last, pc, loc, face_embedding,
                   face_database, recognized, compared, files, folders, swept,
                   pending_image, captured,
                   resolving>>

(* api.py 63-64: the capture loads the index *)
SnapshotLoadOf(station) ==
    /\ face_database' =
           load_face_database(committed_rows(face_data, session.rows),
                              station)
    /\ UNCHANGED <<now, attendance, next_attendance_id, pending_attendance,
                   next_pending_id, last, pc, loc, face_embedding,
                   recognized, compared, store>>

AddRows == \E p \in Personnel, images \in SnapshotImages : rf_add(p, images)
Commit == \E commit_ok \in BOOLEAN : rf_commit(commit_ok)
SnapshotLoad == \E station \in { NULL, StationUser } : SnapshotLoadOf(station)

NextSnapshot == AddRows \/ Commit \/ SnapshotLoad \/ Recognize

SpecSnapshot == InitSnapshot /\ [][NextSnapshot]_vars

----------------------------------------------------------------------------
(* The temporary attendance folder and cleanup_old_attendance_images       *)
(* (face_service.py 419-456, 626-729)                                      *)

(* The name of a file, by the parts the sweep reads: what precedes the     *)
(* date, the date as the day it names (NULL when the name has no part that *)
(* parses as a date) and the rest.  save_attendance_image writes           *)
(* prefix_YYYYMMDD_HHMMSS.jpg; process_base64_image writes temp_uuid.jpg.  *)
ImageName(prefix, day, rest) == [prefix |-> prefix, date |-> day, rest |-> rest]

(* a file: its folder (RootFolder for the temporary folder itself), its    *)
(* name, its modification time and whether os.remove succeeds on it        *)
File(folder, name, mtime, removable) ==
    [folder |-> folder, name |-> name, mtime |-> mtime,
     removable |-> removable]

RootFolder == 0

(* lines 441-448: the file save_attendance_image writes at t *)
saved_image(personnel_id, prefix, t) ==
    File(personnel_id, ImageName(prefix, date(t), strftime(t)), t, TRUE)

(* filename.startswith("temp_") *)
is_temp(name) == name.prefix = "temp"

(* line 636: datetime.now() - timedelta(days=retention_days) *)
cutoff_date(t) == t - ATTENDANCE_IMAGE_RETENTION_DAYS * DayTicks

(* the comparison admitting the cutoff itself *)
name_expired_or_equal(name, cutoff) ==
    name.date # NULL /\ combine(name.date, 0) <= cutoff

(* lines 697-711: datetime.strptime(date_str, "%Y%m%d") < cutoff_date,     *)
(* for a name with a date part                                             *)
name_expired(name, cutoff) ==
    name.date # NULL /\ combine(name.date, 0) < cutoff

(* whether the sweep calls os.remove on the file: a temp_ file by its      *)
(* modification time (lines 650-668, 682-694), another file of a personnel *)
(* folder by the date in its name (696-715); another file of the root is   *)
(* passed over                                                             *)
to_remove(file, cutoff) ==
    IF is_temp(file.name)
    THEN file.mtime < cutoff
    ELSE file.folder # RootFolder /\ name_expired(file.name, cutoff)

(* lines 646-715: the loops over the folders and their files; todo are the *)
(* files not yet visited, kept those visited and left.  An os.remove that  *)
(* raises is caught for that file.                                         *)
RECURSIVE sweep_files(_, _, _)
sweep_files(todo, kept, cutoff) ==
    IF todo = {}
    THEN kept
    ELSE LET file == CHOOSE f \in todo : TRUE
         IN  IF ~to_remove(file, cutoff)
             THEN sweep_files(todo \ {file}, kept \cup {file}, cutoff)
             ELSE IF file.removable
             THEN sweep_files(todo \ {file}, kept, cutoff)
             ELSE sweep_files(todo \ {file}, kept \cup {file}, cutoff)

(* cleanup_old_attendance_images at t: the files and the personnel         *)
(* folders left; a folder without files is removed (lines 717-722)         *)
cleanup_old_attendance_images(fs, dirs, t) ==
    LET left == sweep_files(fs, {}, cutoff_date(t))
    IN  [files |-> left,
         folders |-> { d \in dirs : \E f \in left : f.folder = d }]

----------------------------------------------------------------------------
(* SpecSweep: the sweep applied to a folder of stored files *)

SweepInstants == { At(10, 0, 0, 0), At(10, 12, 0, 0) }

(* Files dated 10, 7 and 2 days before the sweep, one of them not          *)
(* removable, a file without a date in its name, and temp_ files written   *)
(* 10 days and 2 days before                                               *)
StoredFiles ==
    { File(1, ImageName("time_in", 0, 0), At(0, 8, 0, 0), TRUE),
      File(1, ImageName("time_in", 3, 0), At(3, 8, 0, 0), TRUE),
      File(1, ImageName("pending_time_out", 8, 0), At(8, 8, 0, 0), TRUE),
      File(2, ImageName("time_in", 0, 0), At(0, 8, 0, 0), FALSE),
      File(2, ImageName("photo", NULL, 0), At(0, 8, 0, 0), TRUE),
      File(2, ImageName("temp", NULL, 0), At(8, 8, 0, 0), TRUE),
      File(RootFolder, ImageName("temp", NULL, 0), At(0, 8, 0, 0), TRUE) }

InitSweep ==
    /\ now \in SweepInstants
    /\ attendance = {}
    /\ next_attendance_id = 1
    /\ pending_attendance = {}
    /\ next_pending_id = 1
    /\ last = NoResponse
    /\ pc = [w \in Workers |-> "idle"]
    /\ loc = [w \in Workers |-> NoCall]
    /\ face_embedding = NoEmbedding
    /\ face_database = <<>>
    /\ recognized = <<>>
    /\ compared = NoComparison
    /\ face_data = <<>>
    /\ image_path = [p \in Personnel |-> NoFilename]
    /\ registered = NoRegistration
    /\ session = NoSession
    /\ files \in SUBSET StoredFiles
    /\ folders \in { dirs \in SUBSET Personnel :
                       \A f \in files : f.folder \in dirs \cup {RootFolder} }
    /\ swept = NoSweep
    /\ pending_image = <<>>
    /\ captured = NoCapture
    /\ resolving = [w \in Workers |-> NoResolution]

(* the externally scheduled job *)
Sweep ==
    /\ LET res == cleanup_old_attendance_images(files, folders, now)
       IN  /\ files' = res.files
           /\ folders' = res.folders
    /\ swept' = Swept(files, folders, now)
    /\ UNCHANGED <<now, attendance, next_attendance_id, pending_attendance,
                   next_pending_id, last, pc, loc, face_embedding,
                   face_database, recognized, compared, face_data,
                   image_path, registered, session, pending_image, captured,
                   resolving>>

NextSweep == Sweep

SpecSweep == InitSweep /\ [][NextSweep]_vars

----------------------------------------------------------------------------
(* SpecRetention: requests submitted with their image, approved or         *)
(* rejected, while the clock advances and the sweep runs                   *)

(* app.py 59-61: the folder below static/ that save_attendance_image       *)
(* writes to; face_service.py 452-454: the folder it names in the path it  *)
(* returns                                                                 *)
TEMP_ATTENDANCE_FOLDER == "images/attendance_temp"
relative_path_folder == "attendance_images_temp"

(* pending.py 150-153: os.path.exists(static_folder/image_path) for the    *)
(* image of request id                                                     *)
image_path_exists(id) ==
    /\ relative_path_folder = TEMP_ATTENDANCE_FOLDER
    /\ pending_image[id] \in files

(* the tables take the values of a handler's result *)
tables(res) ==
    /\ res.next_attendance_id <= MaxAttendanceId + 1
    /\ res.next_pending_id <= MaxRequests + 1
    /\ attendance' = res.attendance
    /\ next_attendance_id' = res.next_attendance_id
    /\ pending_attendance' = res.pending_attendance
    /\ next_pending_id' = res.next_pending_id
    /\ last' = res.response
    /\ UNCHANGED <<now, pc, loc, face_embedding, face_database, recognized,
                   compared, face_data, image_path, registered, session,
                   swept, captured,
                   resolving>>

(* pending.py 185: f"pending_{attendance_type.lower()}" *)
pending_prefix(attendance_type) ==
    IF attendance_type = "TIME_IN"
    THEN "pending_time_in" ELSE "pending_time_out"

(* pending.py 167-207: the image is saved with the prefix                  *)
(* pending_<type> before the request is added                              *)
submit_with_image(u, p, attendance_type) ==
    \E res \in submit(u, p, attendance_type) :
       /\ tables(res)
       /\ IF res.response.action = "submitted"
          THEN LET image == saved_image(p, pending_prefix(attendance_type),
                                        now)
               IN  /\ files' = files \cup {image}
                   /\ folders' = folders \cup {p}
                   /\ pending_image' =
                         [id \in DOMAIN pending_image \cup {res.response.id}
                            |-> IF id = res.response.id
                                THEN image ELSE pending_image[id]]
          ELSE UNCHANGED <<files, folders, pending_image, captured,
                   resolving>>

(* pending.py 128-158: the image is removed if it exists at its path *)
reject_with_image(u, request_id) ==
    \E res \in reject(u, request_id) :
       /\ tables(res)
       /\ files' = IF /\ res.response.action = "rejected"
                      /\ image_path_exists(request_id)
                   THEN files \ {pending_image[request_id]}
                   ELSE files
       /\ UNCHANGED <<folders, pending_image, captured,
                   resolving>>

(* pending.py 44-121: the path of the image is copied into the record; no  *)
(* file is touched                                                         *)
approve_with_image(u, request_id) ==
    \E res \in approve(u, request_id) :
       /\ tables(res)
       /\ UNCHANGED <<files, folders, pending_image, captured,
                   resolving>>

RetentionInstants == { At(0, 7, 59, 0), At(7, 12, 0, 0), At(8, 12, 0, 0) }

RetentionTick == Tick(RetentionInstants)

RetentionSubmit ==
    \E p \in Personnel :
       submit_with_image(station_id(p), p, RequestType(p))

RetentionApprove == \E id \in RequestIds : approve_with_image(AdminUser, id)

RetentionReject == \E id \in RequestIds : reject_with_image(AdminUser, id)

NextRetention ==
    \/ RetentionTick
    \/ RetentionSubmit
    \/ RetentionApprove
    \/ RetentionReject
    \/ Sweep

SpecRetention == Init /\ [][NextRetention]_vars

----------------------------------------------------------------------------
(* SpecStation: the capture request of a logged-in user, from the loading  *)
(* of the face database to process_attendance (api.py 44-110,              *)
(* attendance.py 84-150)                                                   *)

(* a variant that loads the whole table for every user *)
capture_scope_none(u) == NULL

(* api.py 63, attendance.py 106: None if current_user.is_admin else        *)
(* current_user.id                                                         *)
capture_scope(u) == IF is_admin(u) THEN NULL ELSE u

(* the results of the handler for the probe extracted from the image *)
capture_attendance(u, probe, commit_ok) ==
    LET database == load_face_database(face_data, capture_scope(u))
        result == recognize_face(probe, database, NULL)
    IN  IF probe = NoEmbedding
        THEN { unchanged(reply("capture", NULL, "no_face", NULL)) }
        ELSE IF database = <<>>
        THEN { unchanged(reply("capture", NULL, "no_personnel", NULL)) }
        ELSE IF result[1] = NULL
        THEN { unchanged(reply("capture", NULL, "not_recognized", NULL)) }
        ELSE process_attendance(result[1], result[2], commit_ok)

StationProbes == { NoEmbedding, <<1, 0>>, <<4, 3>> }

(* templates of person 1, of station StationUser, and of person 2, of the  *)
(* administrator's station                                                 *)
StationRows ==
    { FaceData(1, NoFilename, json_dumps(<<5, 0>>)),
      FaceData(2, NoFilename, json_dumps(<<4, 3>>)),
      FaceData(2, NoFilename, json_dumps(<<1, 0>>)) }

StationTables == UNION { [1 .. n -> StationRows] : n \in 0 .. 2 }

InitStation ==
    /\ now = FirstInstant
    /\ attendance = {}
    /\ next_attendance_id = 1
    /\ pending_attendance = {}
    /\ next_pending_id = 1
    /\ last = NoResponse
    /\ pc = [w \in Workers |-> "idle"]
    /\ loc = [w \in Workers |-> NoCall]
    /\ face_embedding = NoEmbedding
    /\ face_database = <<>>
    /\ recognized = <<>>
    /\ compared = NoComparison
    /\ face_data \in StationTables
    /\ image_path = [p \in Personnel |-> NoFilename]
    /\ registered = NoRegistration
    /\ session = NoSession
    /\ files = {}
    /\ folders = {}
    /\ swept = NoSweep
    /\ pending_image = <<>>
    /\ captured = NoCapture
    /\ resolving = [w \in Workers |-> NoResolution]

CaptureOf(u, probe, commit_ok) ==
    /\ \E res \in capture_attendance(u, probe, commit_ok) :
          /\ res.next_attendance_id <= MaxAttendanceId + 1
          /\ attendance' = res.attendance
          /\ next_attendance_id' = res.next_attendance_id
          /\ pending_attendance' = res.pending_attendance
          /\ next_pending_id' = res.next_pending_id
          /\ last' = res.response
    /\ face_embedding' = probe
    /\ face_database' = load_face_database(face_data, capture_scope(u))
    /\ recognized' = recognize_face(face_embedding', face_database', NULL)
    /\ captured' = Captured(u)
    /\ UNCHANGED <<now, pc, loc, compared, face_data, image_path,
                   registered, session, files, folders, swept,
                   pending_image, resolving>>

CaptureRequest ==
    \E u \in Users, probe \in StationProbes, ok \in BOOLEAN :
          CaptureOf(u, probe, ok)

StationTick == Tick(CoarseInstants)

NextStation == StationTick \/ CaptureRequest

SpecStation == InitStation /\ [][NextStation]_vars

----------------------------------------------------------------------------
(* SpecResolve: approve and reject (pending.py 43-164) called by           *)
(* concurrent workers.  A worker reads the request and the record of its   *)
(* date, then commits what it decided from those reads; the handlers take  *)
(* no lock and the tables carry no version column.                         *)

(* what a step of a worker leaves alone besides the tables *)
unresolved == <<face_embedding, face_database, recognized, compared,
                face_data, image_path, registered, session, files, folders,
                swept, pending_image, captured>>

(* pending.py 50-55, 138: the worker has read the request and, for an      *)
(* approval, a record of the request's person and date                     *)
rs_read(w, kind, u, request_id) ==
    /\ resolving[w].status = "idle"
    /\ is_admin(u)
    /\ \E q \in { r \in pending_attendance : r.id = request_id } :
          LET existing == rows_for(attendance, q.personnel_id, q.date)
              rows == IF kind = "reject" \/ existing = {}
                      THEN {NoRow} ELSE existing
          IN  \E e \in rows :
                 /\ e # NoRow => ~already_set(e, q)
                 /\ resolving' =
                       [resolving EXCEPT
                           ![w] = Resolution(kind, "read", u, q, e, now)]
    /\ last' = NoResponse
    /\ UNCHANGED <<now, attendance, next_attendance_id, pending_attendance,
                   next_pending_id, pc, loc>>
    /\ UNCHANGED unresolved

(* pending.py 71-88 flushed: UPDATE attendance SET the columns assigned,   *)
(* WHERE id = the id of the record read                                    *)
update_existing(att, r) ==
    { IF a.id = r.existing.id
      THEN approve_existing(a, r.request, r.user, r.at)
      ELSE a : a \in att }

(* pending.py 116-117: DELETE FROM pending_attendance WHERE id = the id    *)
(* read, and the commit; a DELETE that matches no row is not an error      *)
delete_request(pend, r) == { q \in pend : q.id # r.request.id }

(* pending.py 107-119, 156-160: the changes made from the worker's reads   *)
(* are flushed and committed in one transaction                            *)
rs_commit(w) ==
    LET r == resolving[w]
    IN  /\ r.status = "read"
        /\ IF r.kind = "reject"
           THEN UNCHANGED <<attendance, next_attendance_id>>
           ELSE IF r.existing # NoRow
           THEN /\ attendance' = update_existing(attendance, r)
                /\ UNCHANGED next_attendance_id
           ELSE /\ next_attendance_id <= MaxAttendanceId
                /\ attendance' = attendance \cup
                      {approve_new(next_attendance_id, r.request, r.user,
                                   r.at)}
                /\ next_attendance_id' = next_attendance_id + 1
        /\ pending_attendance' = delete_request(pending_attendance, r)
        /\ resolving' = [resolving EXCEPT ![w].status = "done"]
        /\ last' = reply(r.kind, r.request.personnel_id,
                         IF r.kind = "reject" THEN "rejected"
                         ELSE "approved", r.request.id)
        /\ UNCHANGED <<now, next_pending_id, pc, loc>>
        /\ UNCHANGED unresolved

ResolveInstants == { At(0, 7, 59, 0), At(0, 8, 15, 0) }

ResolveTick == Tick(ResolveInstants)

ResolveSubmit ==
    \E p \in Personnel, t \in AttendanceTypes :
          Background(submit(station_id(p), p, t))

(* a record of person 1 for today with time_in set *)
ResolveSeed ==
    Background(manual(AdminUser, 1, date(now), HMS(7, 0, 0), NULL,
                      "PRESENT"))

ReadToApprove ==
    \E w \in Workers, id \in RequestIds : rs_read(w, "approve", AdminUser, id)

ReadToReject ==
    \E w \in Workers, id \in RequestIds : rs_read(w, "reject", AdminUser, id)

CommitResolution == \E w \in Workers : rs_commit(w)

NextResolve ==
    \/ ResolveTick
    \/ ResolveSubmit
    \/ ResolveSeed
    \/ ReadToApprove
    \/ ReadToReject
    \/ CommitResolution

SpecResolve == Init /\ [][NextResolve]_vars

----------------------------------------------------------------------------
(* Vocabulary of the properties *)

(* the time-ins and time-outs of person p, over all dates *)
ActionsOf(p) ==
    { r.time_in : r \in { x \in attendance :
                            x.personnel_id = p /\ x.time_in # NULL } }
    \cup
    { r.time_out : r \in { x \in attendance :
                             x.personnel_id = p /\ x.time_out # NULL } }

Latest(S) == CHOOSE x \in S : \A y \in S : y <= x

RecordsOf(p, d) ==
    { r \in attendance : r.personnel_id = p /\ r.date = d }

(* the first query of process_attendance finds no row: no action of p at   *)
(* or after now - cooldown                                                 *)
GateOpen(p) == \A a \in ActionsOf(p) : a < now - cooldown_period

Outcomes == {"cooldown", "time_in", "already_recorded", "error"}

(* the step is a process_attendance call for p with confidence c, whose    *)
(* commit succeeds if ok, and last' is its answer                          *)
Recognized(p, c, ok) ==
    /\ last'.op = "process_attendance"
    /\ last'.personnel_id = p
    /\ RecognitionOf(p, c, ok)

----------------------------------------------------------------------------
(* C1: under N >= 2 concurrent process_attendance calls for the same       *)
(* person at the same instant, starting from an empty table, at most one   *)
(* record per (person, date) exists in every reachable state, and once all *)
(* calls have returned without a storage failure exactly one of them       *)
(* answered time_in and every other cooldown or already_recorded.          *)
C1_OneRecordUnderConcurrentCalls ==
    /\ \A p \in Personnel, d \in Dates :
          Cardinality({ r \in attendance :
                          r.personnel_id = p /\ r.date = d }) <= 1
    /\ \A p \in Personnel :
          ( \A w \in Workers : /\ pc[w] = "done"
                               /\ loc[w].personnel_id = p
                               /\ loc[w].current_time = FirstInstant
                               /\ loc[w].response.action # "error" )
          => /\ Cardinality({ w \in Workers :
                                loc[w].response.action = "time_in" }) = 1
             /\ \A w \in Workers :
                   loc[w].response.action \in
                       {"time_in", "cooldown", "already_recorded"}

(* C2: the storage rejects, at commit, the insert of a record whose        *)
(* (person, date) equals that of a record already persisted.               *)
C2_DuplicateInsertRejected ==
    [][ \A r \in attendance' \ attendance :
           { x \in attendance : x.personnel_id = r.personnel_id
                                /\ x.date = r.date } = {} ]_vars

(* C3: when every operation runs to completion before the next begins, at  *)
(* most one record exists per (person, date) in every reachable state, ids *)
(* are unique, and a record keeps its person and date for as long as it    *)
(* exists.                                                                  *)
C3_OneRecordPerPersonDate ==
    /\ [](\A r1 \in attendance, r2 \in attendance :
             \/ r1 = r2
             \/ /\ r1.id # r2.id
                /\ ~(r1.personnel_id = r2.personnel_id
                     /\ r1.date = r2.date))
    /\ [][ \A r1 \in attendance, r2 \in attendance' :
              r1.id = r2.id => /\ r1.personnel_id = r2.personnel_id
                               /\ r1.date = r2.date ]_vars

(* two records of one person on different dates, one created by            *)
(* recognition and one by hand or by approval                              *)
C3_Witness ==
    \E r1 \in attendance, r2 \in attendance :
       /\ r1.personnel_id = r2.personnel_id
       /\ r1.date # r2.date
       /\ r1.confidence_score # NULL
       /\ r2.approved_by # NULL

(* C4: a first process_attendance call for a known person with no record   *)
(* today and no action within the cooldown window answers time_in and      *)
(* leaves exactly one record for (p, today); a call that follows a         *)
(* recognized time-in at T while now - T < cooldown_period answers         *)
(* cooldown, creates no record, and exactly one record exists for          *)
(* (p, date(T)).                                                           *)
C4_TimeInThenCooldown ==
    [][ \A p \in Personnel, c \in Confidences :
           Recognized(p, c, TRUE) =>
           /\ ( /\ RecordsOf(p, date(now)) = {}
                /\ \A a \in ActionsOf(p) : now - a >= cooldown_period )
              => /\ last'.action = "time_in"
                 /\ Cardinality({ r \in attendance' :
                                    /\ r.personnel_id = p
                                    /\ r.date = date(now) }) = 1
           /\ \A first \in attendance :
                 ( /\ first.personnel_id = p
                   /\ first.confidence_score # NULL
                   /\ first.time_in <= now
                   /\ now - first.time_in < cooldown_period )
                 => /\ last'.action = "cooldown"
                    /\ attendance' = attendance
                    /\ Cardinality(RecordsOf(p, date(first.time_in))) = 1
      ]_vars

(* C5: a call for a known person is answered with cooldown exactly when    *)
(* the person has an action and now - lastAction < cooldown_period, where  *)
(* lastAction is the most recent time-in or time-out; at a difference of   *)
(* exactly cooldown_period the call is not answered with cooldown.         *)
C5_CooldownExactlyInsideWindow ==
    [][ \A p \in Personnel, c \in Confidences, ok \in BOOLEAN :
           Recognized(p, c, ok) =>
           ( last'.action = "cooldown"
             <=> /\ ActionsOf(p) # {}
                 /\ now - Latest(ActionsOf(p)) < cooldown_period )
      ]_vars

(* C6: every process_attendance call answers one of cooldown, time_in,     *)
(* already_recorded, error; a time_in answer adds exactly one record, for  *)
(* the person and today's date, and changes no other record; every other   *)
(* answer leaves the attendance table as it was.  No call touches the      *)
(* pending requests.                                                       *)
C6_OutcomesAndFrame ==
    [][ \A p \in CaptureInputs, c \in Confidences, ok \in BOOLEAN :
           Recognized(p, c, ok) =>
           /\ last'.action \in Outcomes
           /\ pending_attendance' = pending_attendance
           /\ IF last'.action = "time_in"
              THEN \E r \in attendance' \ attendance :
                      /\ attendance' = attendance \cup {r}
                      /\ r.personnel_id = p
                      /\ r.date = date(now)
              ELSE attendance' = attendance
      ]_vars

(* a time_in answer given while another record was already stored *)
C6_Witness ==
    /\ last.op = "process_attendance"
    /\ last.action = "time_in"
    /\ Cardinality(attendance) = 2

(* T is a time-in of p and p's only action at or after now - cooldown *)
SoleRecentTimeIn(p, T) ==
    /\ \E r \in attendance : r.personnel_id = p /\ r.time_in = T
    /\ T <= now
    /\ \A a \in ActionsOf(p) \ {T} : a < now - cooldown_period

(* The answer to a call at distance d from the time-in T, given the        *)
(* remaining time, in ticks, expected while d is inside the window         *)
AnswerAtDistance(p, T, expected) ==
    LET d == now - T
    IN  /\ (0 < d /\ d < cooldown_period)
           => /\ last'.action = "cooldown"
              /\ last'.remaining_time * TicksPerSecond = expected
              /\ attendance' = attendance
        /\ d = (ATTENDANCE_COOLDOWN + 1) * TicksPerSecond
           => /\ last'.action # "cooldown"
              /\ date(now) = date(T) => last'.action = "already_recorded"
              /\ (date(now) # date(T) /\ RecordsOf(p, date(now)) = {})
                 => /\ last'.action = "time_in"
                    /\ \E r \in attendance' \ attendance :
                          r.personnel_id = p /\ r.date = date(now)

C8_RemainingFromMostRecentAction ==
    [][ \A p \in Personnel, c \in Confidences, ok \in BOOLEAN :
           ( /\ Recognized(p, c, ok)
             /\ ActionsOf(p) # {}
             /\ Latest(ActionsOf(p)) <= now
             /\ now - Latest(ActionsOf(p)) < cooldown_period )
           => /\ last'.action = "cooldown"
              /\ attendance' = attendance
              /\ last'.remaining_time =
                    (cooldown_period - (now - Latest(ActionsOf(p))))
                        \div TicksPerSecond
      ]_vars

(* C9: when the gate passes and p has no record today, a call whose commit *)
(* succeeds answers time_in and adds one record with time_in = now, no     *)
(* time_out, the supplied confidence, and status LATE if the time of day   *)
(* is strictly after work_start_time and PRESENT otherwise.                *)
C9_NewRecordOnTimeIn ==
    [][ \A p \in Personnel, c \in Confidences :
           ( /\ Recognized(p, c, TRUE)
             /\ GateOpen(p)
             /\ RecordsOf(p, date(now)) = {} )
           => /\ last'.action = "time_in"
              /\ \E r \in attendance' \ attendance :
                    /\ attendance' = attendance \cup {r}
                    /\ r.id = last'.id
                    /\ r.personnel_id = p
                    /\ r.date = date(now)
                    /\ r.time_in = now
                    /\ r.time_out = NULL
                    /\ r.confidence_score = c
                    /\ r.status =
                          IF now % DayTicks
                                > (WORK_START_HOUR * 60 + WORK_START_MINUTE)
                                     * 60 * TicksPerSecond
                          THEN "LATE" ELSE "PRESENT"
      ]_vars

(* a record created at work_start_time itself, and so PRESENT *)
C9_Witness ==
    /\ last.op = "process_attendance"
    /\ last.action = "time_in"
    /\ \E r \in attendance :
          /\ r.id = last.id
          /\ r.time_in = At(0, WORK_START_HOUR, WORK_START_MINUTE, 0)
          /\ r.status = "PRESENT"

(* C10: when the gate passes and p has a record today, the call answers    *)
(* already_recorded with that record's time-in and time-out and changes no *)
(* record; a record entered by hand with no time-in keeps it unset.        *)
C10_AlreadyRecordedLeavesRecord ==
    [][ \A p \in Personnel, c \in Confidences, ok \in BOOLEAN :
           ( /\ Recognized(p, c, ok)
             /\ GateOpen(p)
             /\ RecordsOf(p, date(now)) # {} )
           => /\ last'.action = "already_recorded"
              /\ attendance' = attendance
              /\ \E a \in RecordsOf(p, date(now)) :
                    /\ last'.id = a.id
                    /\ last'.time_in = strftime(a.time_in)
                    /\ last'.time_out = strftime(a.time_out)
      ]_vars

(* already_recorded answered for a hand-entered record without a time-in *)
C10_Witness ==
    /\ last.op = "process_attendance"
    /\ last.action = "already_recorded"
    /\ \E a \in attendance :
          /\ a.id = last.id
          /\ a.date = date(now)
          /\ a.time_in = NULL
          /\ a.approved_by # NULL

(* C11: every persisted record has its time_in set, and time_out is set    *)
(* only on a record whose time_in is set (Absent -> TimedIn -> Complete),  *)
(* in every state reached through recognition, manual entry, edit and      *)
(* approval.                                                               *)
C11_TimeInBeforeTimeOut ==
    \A r \in attendance :
       /\ r.time_in # NULL
       /\ r.time_out # NULL => r.time_in # NULL

(* C12: in every reachable state a record whose time_in and time_out are   *)
(* both set has time_out >= time_in, whatever the sequence of              *)
(* recognitions, manual entries and approvals.                             *)
C12_TimeOutNotBeforeTimeIn ==
    \A r \in attendance :
       (r.time_in # NULL /\ r.time_out # NULL) => r.time_out >= r.time_in

(* the fixed rule: Late iff the time of day of the time-in is later than   *)
(* work-start                                                              *)
RuleStatus(t) ==
    IF t % DayTicks > (WORK_START_HOUR * 60 + WORK_START_MINUTE)
                         * 60 * TicksPerSecond
    THEN "LATE" ELSE "PRESENT"

(* C13: a recognition or an approval that sets a record's time-in gives    *)
(* the record the status of the fixed rule, and no recognition or approval *)
(* changes the status of a record whose time-in was already set, in        *)
(* particular not the approval that sets its time-out.                     *)
C13_StatusFixedAtTimeIn ==
    [][ last'.op \in {"process_attendance", "approve"} =>
        \A r2 \in attendance' :
           LET old == { r \in attendance : r.id = r2.id }
           IN  /\ (r2.time_in # NULL /\ \A r \in old : r.time_in = NULL)
                  => r2.status = RuleStatus(r2.time_in)
               /\ \A r \in old : r.time_in # NULL => r2.status = r.status
      ]_vars

(* C14: every record created by process_attendance carries a confidence    *)
(* and is flagged as automatically captured; every record created by       *)
(* manual entry or by approval is flagged as not automatically captured    *)
(* and carries an approver.                                                *)
C14_OriginOfCreatedRecords ==
    [][ \A r \in attendance' :
           { x \in attendance : x.id = r.id } = {} =>
           /\ last'.op = "process_attendance"
              => /\ r.confidence_score # NULL
                 /\ r.is_auto_captured = "TRUE"
           /\ last'.op \in {"manual", "approve"}
              => /\ r.is_auto_captured = "FALSE"
                 /\ r.approved_by # NULL
      ]_vars

(* C15: a manual entry for (p, d) by a user allowed to act for p is        *)
(* refused and changes nothing when a record for (p, d) exists; otherwise  *)
(* it adds exactly one record, for (p, d), with the supplied time-in,      *)
(* time-out and status, however recent p's last action is.                 *)
C15_ManualEntry ==
    [][ \A p \in Personnel, d \in Dates, f \in EntryForms :
           ( /\ last'.op = "manual"
             /\ ManualOf(StationUser, p, d, f, "LATE")
             /\ can_access(StationUser, p) )
           => IF RecordsOf(p, d) # {}
              THEN /\ last'.action = "exists"
                   /\ attendance' = attendance
              ELSE /\ last'.action = "added"
                   /\ \E r \in attendance' \ attendance :
                         /\ attendance' = attendance \cup {r}
                         /\ r.personnel_id = p
                         /\ r.date = d
                         /\ r.time_in = IF f[1] = NULL THEN NULL
                                        ELSE d * DayTicks + f[1]
                         /\ r.time_out = IF f[2] = NULL THEN NULL
                                         ELSE d * DayTicks + f[2]
                         /\ r.status = "LATE"
      ]_vars

(* a manual entry with times, for another date, accepted while the         *)
(* person's recognized time-in is less than cooldown_period old            *)
C15_Witness ==
    /\ last.op = "manual"
    /\ last.action = "added"
    /\ \E r \in attendance, m \in attendance :
          /\ m.id = last.id
          /\ m.time_in # NULL
          /\ m.date # date(now)
          /\ r.id # m.id
          /\ r.personnel_id = m.personnel_id
          /\ r.confidence_score # NULL
          /\ r.time_in <= now
          /\ now - r.time_in < cooldown_period

(* the time field that request q asks to set, in record r *)
RequestedField(r, q) ==
    IF q.attendance_type = "TIME_IN" THEN r.time_in ELSE r.time_out

(* C16: the administrator's approval of a pending request q is refused,    *)
(* leaving the records unchanged and q pending, when the record of q's     *)
(* person and date has the requested time field set; otherwise it removes  *)
(* q and either creates the record with only the requested field set, or   *)
(* sets in the existing record the requested field, the approval flag and  *)
(* the approver, and nothing else.                                         *)
C16_ApprovalNeverOverwrites ==
    [][ \A q \in pending_attendance :
           (last'.op = "approve" /\ ApproveOf(AdminUser, q.id)) =>
           LET recs == RecordsOf(q.personnel_id, q.date)
           IN  IF \E r \in recs : RequestedField(r, q) # NULL
               THEN /\ last'.action # "approved"
                    /\ attendance' = attendance
                    /\ pending_attendance' = pending_attendance
               ELSE /\ last'.action = "approved"
                    /\ pending_attendance' = pending_attendance \ {q}
                    /\ IF recs = {}
                       THEN \E r \in attendance' \ attendance :
                               /\ attendance' = attendance \cup {r}
                               /\ r.personnel_id = q.personnel_id
                               /\ r.date = q.date
                               /\ RequestedField(r, q) = now
                               /\ r.time_in = NULL \/ r.time_out = NULL
                               /\ r.is_approved = "TRUE"
                               /\ r.approved_by = AdminUser
                       ELSE \E r \in recs :
                               attendance' = (attendance \ {r}) \cup
                                  { IF q.attendance_type = "TIME_IN"
                                    THEN [r EXCEPT !.time_in = now,
                                                   !.is_approved = "TRUE",
                                                   !.approved_by = AdminUser]
                                    ELSE [r EXCEPT !.time_out = now,
                                                   !.is_approved = "TRUE",
                                                   !.approved_by = AdminUser] }
      ]_vars

(* an approval refused because the recognized record already has its       *)
(* time-in, the request still pending                                      *)
C16_Witness ==
    /\ last.op = "approve"
    /\ last.action = "already"
    /\ \E q \in pending_attendance, r \in attendance :
          /\ q.id = last.id
          /\ q.attendance_type = "TIME_IN"
          /\ r.personnel_id = q.personnel_id
          /\ r.date = q.date
          /\ r.confidence_score # NULL
          /\ r.time_in # NULL

(* C17: the administrator's rejection of a pending request removes that    *)
(* request and leaves the attendance table exactly as it was, and a        *)
(* request once rejected is never approved afterwards.                     *)
C17_RejectDiscardsRequest ==
    /\ [][ \A q \in pending_attendance :
              (last'.op = "reject" /\ RejectOf(AdminUser, q.id)) =>
              /\ last'.action = "rejected"
              /\ attendance' = attendance
              /\ next_attendance_id' = next_attendance_id
              /\ pending_attendance' = pending_attendance \ {q} ]_vars
    /\ \A id \in RequestIds :
          []( ( last.op = "reject" /\ last.action = "rejected"
                /\ last.id = id )
              => [] ~( last.op = "approve" /\ last.action = "approved"
                       /\ last.id = id ) )

(* a request rejected while the person has a record and another request    *)
(* is still pending                                                        *)
C17_Witness ==
    /\ last.op = "reject"
    /\ last.action = "rejected"
    /\ pending_attendance # {}
    /\ \E r \in attendance : r.personnel_id = last.personnel_id

C19_ConflictingInsertIsRetried ==
    [][ \A w \in Workers :
           ( /\ pc[w] = "insert"
             /\ pc'[w] = "done"
             /\ loc'[w].response.error = ""
             /\ \E r \in attendance : /\ r.personnel_id = loc[w].personnel_id
                                      /\ r.date = loc[w].today )
           => /\ loc'[w].response.action \in {"cooldown", "already_recorded"}
              /\ attendance' = attendance
      ]_vars

----------------------------------------------------------------------------
(* The recognizer's result *)

(* the similarity to the probe of template j of the i-th person *)
SimilarityOf(c) ==
    compare_embeddings(face_embedding,
                       face_database[c[1]].embeddings[c[2]],
                       float_literal(FACE_RECOGNITION_THRESHOLD))[1]

(* the templates whose similarity reaches the threshold, each named by    *)
(* its position <<i, j>> in the database                                   *)
Candidates ==
    { c \in UNION { { <<i, j>> : j \in DOMAIN face_database[i].embeddings } :
                      i \in DOMAIN face_database } :
        /\ face_database[c[1]].embeddings[c[2]] # NoEmbedding
        /\ SimilarityOf(c) >= float_literal(FACE_RECOGNITION_THRESHOLD) }

(* c is met before d when the database is iterated *)
SeenBefore(c, d) == c[1] < d[1] \/ (c[1] = d[1] /\ c[2] < d[2])

(* C20: recognize_face returns (none, 0) when the probe is absent, the     *)
(* database is empty or no template's similarity reaches the threshold;    *)
(* otherwise it returns the greatest similarity among the templates that   *)
(* reach the threshold, and the person owning the first template, in       *)
(* iteration order, that has this similarity.                              *)
C20_RecognizerResult ==
    recognized # <<>> =>
        IF face_embedding = NoEmbedding \/ face_database = <<>>
                                        \/ Candidates = {}
        THEN recognized = <<NULL, 0>>
        ELSE \E c \in Candidates :
                /\ \A d \in Candidates : SimilarityOf(d) <= SimilarityOf(c)
                /\ \A d \in Candidates :
                       SimilarityOf(d) = SimilarityOf(c) => ~SeenBefore(d, c)
                /\ recognized = <<face_database[c[1]].personnel_id,
                                  SimilarityOf(c)>>

(* two persons own templates of the same, greatest similarity, and the     *)
(* person met first is returned                                            *)
C20_Witness ==
    /\ recognized # <<>>
    /\ \E c \in Candidates, d \in Candidates :
          /\ c[1] < d[1]
          /\ SimilarityOf(c) = SimilarityOf(d)
          /\ \A e \in Candidates : SimilarityOf(e) <= SimilarityOf(c)
          /\ recognized = <<face_database[c[1]].personnel_id,
                            SimilarityOf(c)>>

----------------------------------------------------------------------------
(* The similarity scorer *)

(* every component of the vector is 0 *)
IsZero(emb) == \A i \in DOMAIN emb : emb[i] = 0

(* C21: compare_embeddings returns (0, false) when the shapes differ or a  *)
(* norm is 0; otherwise it reports a match exactly when the similarity     *)
(* reaches the threshold, and a non-zero vector compared with itself       *)
(* matches at every threshold up to 1.  A template of another              *)
(* dimensionality than the probe is never the recognized identity.         *)
C21_ScorerContract ==
    /\ compared # NoComparison =>
          LET emb1 == face_embedding
              emb2 == compared.db_embedding
          IN  /\ IF Len(emb1) # Len(emb2) \/ IsZero(emb1) \/ IsZero(emb2)
                 THEN compared.similarity = 0 /\ ~compared.is_match
                 ELSE compared.is_match
                          <=> compared.similarity >= compared.threshold
              /\ ( /\ emb1 = emb2
                   /\ ~IsZero(emb1)
                   /\ compared.threshold <= float_literal(100) )
                 => compared.is_match
    /\ ( /\ recognized # <<>>
         /\ Len(face_database[1].embeddings[1]) # Len(face_embedding) )
       => recognized[1] = NULL

----------------------------------------------------------------------------
(* The template store's load *)

(* the rows of the table that hold a non-empty embedding of person p and,  *)
(* when a station is given, of a person of that station                    *)
ValidRows(p, station) ==
    { i \in DOMAIN face_data :
        /\ face_data[i].personnel_id = p
        /\ face_data[i].embedding.kind = "json"
        /\ face_data[i].embedding.value # <<>>
        /\ station = NULL \/ station_id(p) = station }

(* the templates the index holds for person p *)
TemplatesOf(database, p) ==
    IF \E i \in DOMAIN database : database[i].personnel_id = p
    THEN database[CHOOSE i \in DOMAIN database :
                      database[i].personnel_id = p].embeddings
    ELSE <<>>

(* C22: the index returned by load_face_database(station) holds each       *)
(* person at most once and, per person and in stored order, exactly the    *)
(* templates of the rows that parse to a non-empty embedding and belong to *)
(* the station when one is given; a row that does not parse removes        *)
(* nothing else.                                                           *)
C22_LoadReturnsValidTemplates ==
    [][ \A station \in Scopes :
           LoadOf(station)
           => /\ \A i \in DOMAIN face_database', j \in DOMAIN face_database' :
                    face_database'[i].personnel_id
                        = face_database'[j].personnel_id => i = j
              /\ \A i \in DOMAIN face_database' :
                    /\ face_database'[i].personnel_id \in Personnel
                    /\ face_database'[i].embeddings # <<>>
              /\ \A p \in Personnel :
                    LET rows == ValidRows(p, station)
                        templates == TemplatesOf(face_database', p)
                    IN  /\ Len(templates) = Cardinality(rows)
                        /\ \A i \in rows :
                              templates[Cardinality({ j \in rows : j <= i })]
                                  = face_data[i].embedding.value
      ]_vars

(* a row that does not parse lies between two valid rows of one person,    *)
(* and the index holds both templates                                     *)
C22_Witness ==
    \E i \in DOMAIN face_data, j \in DOMAIN face_data, k \in DOMAIN face_data :
        /\ i < j /\ j < k
        /\ face_data[j].embedding = InvalidText
        /\ face_data[i].personnel_id = face_data[j].personnel_id
        /\ face_data[k].personnel_id = face_data[j].personnel_id
        /\ TemplatesOf(face_database, face_data[j].personnel_id)
               = <<face_data[i].embedding.value, face_data[k].embedding.value>>

----------------------------------------------------------------------------
(* Enrollment *)

(* the images of the request, counted from 1, that yield an embedding *)
Accepted(images) == { i \in DOMAIN images : images[i] # NoEmbedding }

----------------------------------------------------------------------------
(* Snapshots of the template store *)

(* the number of templates the index holds *)
RECURSIVE TemplateCount(_)
TemplateCount(database) ==
    IF database = <<>>
    THEN 0
    ELSE Len(Head(database).embeddings) + TemplateCount(Tail(database))

(* the step belongs to a register_face call *)
EnrollStep == session' # session \/ face_data' # face_data

(* C23: no step of a register_face call changes a loaded index or what     *)
(* recognize_face returns for it; a load made while a call has added rows  *)
(* and not committed holds none of them, and a load made after the commit  *)
(* holds all of them.                                                      *)
C23_SnapshotIsolation ==
    [][ /\ EnrollStep
           => /\ face_database' = face_database
              /\ recognized' = recognized
              /\ recognize_face(face_embedding', face_database', NULL)
                     = recognize_face(face_embedding, face_database, NULL)
        /\ face_database' # face_database
           => /\ ~EnrollStep
              /\ \E station \in { NULL, StationUser } :
                    \A p \in Personnel :
                       TemplatesOf(face_database', p)
                           = [k \in 1 .. Cardinality(ValidRows(p, station)) |->
                                 face_data[CHOOSE i \in ValidRows(p, station) :
                                     Cardinality({ j \in ValidRows(p, station) :
                                                     j <= i }) = k].embedding.value]
      ]_vars

(* a recognition has used an index that lacks a committed template, while  *)
(* another register_face call has rows waiting for its commit              *)
C23_Witness ==
    /\ face_database # <<>>
    /\ recognized # <<>>
    /\ recognized[1] # NULL
    /\ TemplateCount(face_database) < Len(face_data)
    /\ session.rows # <<>>

----------------------------------------------------------------------------
(* a step of the sweep, and what it found *)
SweepStep == swept' # swept

Dated(f) == ~is_temp(f.name) /\ f.name.date # NULL /\ f.folder # RootFolder
Older(f, t) ==
    combine(f.name.date, 0) < t - ATTENDANCE_IMAGE_RETENTION_DAYS * DayTicks

(* what holds of every sweep: dated files, failures, folders, completion *)
SweepOfDatedFiles ==
    /\ files' \subseteq files
    /\ \A f \in files :
         /\ Dated(f) /\ Older(f, now) /\ f.removable => f \notin files'
         /\ Dated(f) /\ ~Older(f, now) => f \in files'
         /\ ~f.removable => f \in files'
    /\ folders' = { d \in folders : \E f \in files' : f.folder = d }

----------------------------------------------------------------------------
(* C30: the image saved for a request is there as long as the request is   *)
(* pending, whatever sweeps have run.                                      *)
C30_PendingImageExists ==
    \A q \in pending_attendance : pending_image[q.id] \in files

----------------------------------------------------------------------------
(* whether the cooldown has passed at t for every action of person p *)
CooldownPassed(p, t) ==
    \A x \in ActionsOf(p) : t - x >= cooldown_period

TimedIn(a) == a.time_in # NULL /\ a.time_out = NULL

(* a recognition event leaves every record as it is and adds only records  *)
(* without time_out                                                        *)
RecognitionKeepsTimeOut ==
    [][last'.op = "process_attendance" =>
          /\ attendance \subseteq attendance'
          /\ \A a \in attendance' \ attendance : a.time_out = NULL]_vars

(* a recognition event for a person whose record of today is TimedIn and   *)
(* whose actions all lie a cooldown or more back answers already_recorded  *)
TimedInAnswersAlreadyRecorded ==
    last.op = "process_attendance" /\ last.personnel_id \in Personnel =>
       \A a \in rows_for(attendance, last.personnel_id, date(now)) :
            TimedIn(a) /\ CooldownPassed(last.personnel_id, now) =>
               last.action = "already_recorded"

(* C26: no recognition event sets or changes the time_out of a record, so  *)
(* a TimedIn record becomes Complete only by an approval or a manual edit; *)
(* a recognition event for a TimedIn record once the cooldown has passed   *)
(* answers already_recorded.                                               *)
C26_RecognitionNeverClosesDay ==
    RecognitionKeepsTimeOut /\ []TimedInAnswersAlreadyRecorded

----------------------------------------------------------------------------
(* a capture request was answered *)
CaptureStep == last'.op \in {"capture", "process_attendance"}

(* C27: the capture request of a user who is no administrator loads only   *)
(* the templates of the persons of that user's station, recognizes only    *)
(* such a person and adds a record only for such a person; the capture     *)
(* request of an administrator loads the templates of every person.        *)
C27_CaptureScopedToStation ==
    [][CaptureStep =>
         LET u == captured'.user
             scope == IF is_admin(u) THEN NULL ELSE u
         IN  /\ \A p \in Personnel :
                   Len(TemplatesOf(face_database', p))
                      = Cardinality(ValidRows(p, scope))
             /\ ~is_admin(u) =>
                   /\ recognized'[1] # NULL => station_id(recognized'[1]) = u
                   /\ \A a \in attendance' \ attendance :
                         station_id(a.personnel_id) = u]_vars

(* the station user's capture matched a template of person 1 and recorded  *)
(* the time-in of person 1, while the table holds a template of person 2   *)
(* that equals the probe                                                   *)
C27_Witness ==
    /\ captured.user = StationUser
    /\ face_embedding = <<4, 3>>
    /\ \E i \in DOMAIN face_data :
          /\ face_data[i].personnel_id = 2
          /\ face_data[i].embedding = json_dumps(<<4, 3>>)
    /\ recognized[1] = 1
    /\ last.action = "time_in"
    /\ \E a \in attendance : a.personnel_id = 1
    /\ \A a \in attendance : a.personnel_id # 2

----------------------------------------------------------------------------
(* the workers whose approval or rejection has been committed *)
Resolved == { w \in Workers : resolving[w].status = "done" }

(* the approval's time is in the field the request asks for *)
Written(r) ==
    \E a \in rows_for(attendance, r.request.personnel_id, r.request.date) :
        IF r.request.attendance_type = "TIME_IN"
        THEN a.time_in # NULL ELSE a.time_out # NULL

(* C28: a pending request is resolved at most once and atomically: once an *)
(* approval is committed the time is written and the request is gone; of   *)
(* two approvals, or an approval and a rejection, of one request that run  *)
(* concurrently at most one takes effect, and the request's person and     *)
(* date have at most one record.                                           *)
C28_ResolvedOnceAtomically ==
    /\ \A w \in Resolved :
          /\ resolving[w].request \notin pending_attendance
          /\ resolving[w].kind = "approve" => Written(resolving[w])
    /\ \A w \in Resolved, v \in Resolved :
          resolving[w].request.id = resolving[v].request.id => w = v
    /\ \A w \in Resolved :
          Cardinality(rows_for(attendance, resolving[w].request.personnel_id,
                               resolving[w].request.date)) <= 1

----------------------------------------------------------------------------
(* C29: every cooldown answer reports a remaining_time between 0 and the   *)
(* cooldown duration, whatever records the person has, records entered by  *)
(* hand with a time later than now included.                               *)
C29_RemainingTimeBounded ==
    last.op = "process_attendance" /\ last.action = "cooldown" =>
       /\ 0 <= last.remaining_time
       /\ last.remaining_time <= ATTENDANCE_COOLDOWN

====
